---------------------------- MODULE Spec2Model ----------------------------
(***************************************************************************)
(* A model of testrules.py, the lightweight test runner: the TestResult    *)
(* container, the command-line parser, test discovery, the loading of test *)
(* files and sys.path, the execution of one test method, coverage, and the *)
(* main pipeline (lint, discovery, inspection, execution, exit status).    *)
(***************************************************************************)
EXTENDS Integers, Sequences, FiniteSets, TLC

VARIABLES
    argv,                   \* sys.argv[1:]
    config_file,            \* testrules.json: None, or what the file holds
    config,                 \* the Config built by load_config
    fs,                     \* the files that exist below the working directory
    pc,                     \* position of the running function
    parsed_args,            \* result of parse_arguments
    violation_count,        \* main's violation_count (None before run_lint)
    lint_failed,            \* main's lint_failed
    din,                    \* arguments of the discover_tests call
    discovered_files,       \* result of discover_tests
    test_methods_by_module, \* result of discover_test_methods
    queue,                  \* test methods run_tests has still to run
    test_result,            \* the TestResult of the run
    cov,                    \* the coverage object of run_tests, or None
    now,                    \* time.time()
    exit_code,              \* value returned by main (None while running)
    log,                    \* the calls performed so far, in order
    sys_path,               \* sys.path, the directories modules are looked up in
    world                   \* what the surroundings give a call that is checked
                            \* on its own (None in main, which draws it step by step)

inputVars == <<argv, config_file, fs>>
mainVars == <<config, pc, parsed_args, violation_count, lint_failed, exit_code>>
discVars == <<din, discovered_files>>
runVars == <<test_methods_by_module, queue, test_result, cov, now>>
envVars == <<sys_path, world>>
vars == <<argv, config_file, config, fs, pc, parsed_args, violation_count, lint_failed, din,
          discovered_files, test_methods_by_module, queue, test_result, cov,
          now, exit_code, log, sys_path, world>>

\* Python's None, and a value that is not None (an optional value is a
\* sequence of at most one element)
None == <<>>
Some(x) == <<x>>
Val(o) == o[1]

(***************************************************************************)
(* Bounds of the model                                                     *)
(***************************************************************************)
MaxArgs == 2        \* longest argument list
MaxResults == 3     \* most results added to a TestResult on its own
MaxDuration == 1    \* longest duration of one test method, in clock ticks (at least 1)
MaxViolations == 2  \* most style violations the lint backend reports

(***************************************************************************)
(* Data model: TestMethod, MethodResult, TestResult                        *)
(***************************************************************************)
\* TestMethod.__init__
TestMethod(name, module, class_name, file_path) ==
    [name |-> name, module |-> module, class_name |-> class_name,
     file_path |-> file_path,
     full_name |-> IF class_name # None
                   THEN module \o "." \o Val(class_name) \o "." \o name
                   ELSE module \o "." \o name]

\* MethodResult.__init__
MethodResult(method, status, duration, error, traceback_str) ==
    [method |-> method, status |-> status, duration |-> duration,
     error |-> error, traceback_str |-> traceback_str]

Statuses == {"pass", "fail", "error"}

\* TestResult.__init__
NewTestResult ==
    [total |-> 0, passed |-> 0, failed |-> 0, errors |-> 0,
     method_results |-> <<>>, duration |-> 0,
     start_time |-> None, end_time |-> None]

\* a plausible slip: the error branch of add_result is missing
add_result_no_errors(tr, mr) ==
    [tr EXCEPT !.method_results = Append(@, mr),
               !.total = @ + 1,
               !.passed = IF mr.status = "pass" THEN @ + 1 ELSE @,
               !.failed = IF mr.status = "fail" THEN @ + 1 ELSE @]

\* TestResult.add_result
add_result(tr, mr) ==
    [tr EXCEPT !.method_results = Append(@, mr),
               !.total = @ + 1,
               !.passed = IF mr.status = "pass" THEN @ + 1 ELSE @,
               !.failed = IF mr.status = "fail" THEN @ + 1 ELSE @,
               !.errors = IF mr.status = "error" THEN @ + 1 ELSE @]

\* TestResult.start_timing
start_timing(tr, t) == [tr EXCEPT !.start_time = Some(t)]

\* TestResult.stop_timing (time.time() is never 0, so a set start_time is truthy)
stop_timing(tr, t) ==
    [tr EXCEPT !.end_time = Some(t),
               !.duration = IF tr.start_time # None /\ Val(tr.start_time) # 0
                            THEN t - Val(tr.start_time) ELSE @]


(***************************************************************************)
(* Floating point: a float is m * 2^e, its significand m being 0 or of      *)
(* MantissaBits bits; every operation gives the float nearest to the exact  *)
(* result, ties to the even significand.  Python's float has 53 bits; the   *)
(* significand is narrowed to a width whose roundings of the small          *)
(* fractions of the model fall as with 53 bits.                             *)
(***************************************************************************)
MantissaBits == 17

Float(m, e) == [m |-> m, e |-> e]

\* 0.0
Zero == Float(0, 0)

RECURSIVE Normalize(_, _, _)
\* (n / d) * 2^e written so that n / d has MantissaBits bits before the point
Normalize(n, d, e) ==
    IF n < 2^(MantissaBits - 1) * d THEN Normalize(2 * n, d, e - 1)
    ELSE IF n >= 2^MantissaBits * d THEN Normalize(n, 2 * d, e + 1)
    ELSE [n |-> n, d |-> d, e |-> e]

\* the float nearest to (n / d) * 2^e, for n >= 0 and d > 0
Nearest(n, d, e) ==
    IF n = 0 THEN Zero
    ELSE LET s == Normalize(n, d, e)
             q == s.n \div s.d
             r == s.n % s.d
             m == IF 2 * r > s.d \/ (2 * r = s.d /\ q % 2 = 1) THEN q + 1 ELSE q
         IN  IF m = 2^MantissaBits
             THEN Float(2^(MantissaBits - 1), s.e + 1)
             ELSE Float(m, s.e)

\* a / b for two ints, and x * k for a float and a float k that is a small
\* whole number
TrueDiv(a, b) == Nearest(a, b, 0)
Times(x, k) == Nearest(x.m * k, 1, x.e)

\* a plausible slip: the rate is left a fraction of 1
get_success_rate_fraction(tr) ==
    IF tr.total = 0 THEN Zero ELSE TrueDiv(tr.passed, tr.total)

\* TestResult.get_success_rate
get_success_rate(tr) ==
    IF tr.total = 0 THEN Zero ELSE Times(TrueDiv(tr.passed, tr.total), 100)

(***************************************************************************)
(* Config and load_config                                                  *)
(***************************************************************************)
\* the JSON object {}
EmptyData == [k \in {} |-> None]

\* data.get(key, default)
Get(data, key, default) == IF key \in DOMAIN data THEN data[key] ELSE default

\* the defaults of Config.__init__
DefaultPatterns ==
    [unit |-> <<"test_*.py", "*_test.py">>,
     integration |-> <<"integration_test_*.py", "*_integration_test.py">>,
     e2e |-> <<"e2e_test_*.py", "*_e2e_test.py">>,
     regression |-> <<"regression_test_*.py", "*_regression_test.py">>]
DefaultGroups == [all |-> <<>>]

\* Config.__init__ (data or {} is data itself for a JSON object)
Config(data) ==
    [test_patterns |-> Get(data, "test_patterns", DefaultPatterns),
     test_groups |-> Get(data, "test_groups", DefaultGroups),
     coverage_enabled |-> Get(data, "coverage_enabled", TRUE),
     html_coverage |-> Get(data, "html_coverage", TRUE),
     html_coverage_dir |-> Get(data, "html_coverage_dir", "htmlcov")]

\* Config.get_test_types
get_test_types(cfg) == DOMAIN cfg.test_patterns

\* Config.has_test_type
has_test_type(cfg, test_type) == test_type \in DOMAIN cfg.test_patterns

\* Config.get_patterns_for_test_type
get_patterns_for_test_type(cfg, test_type) ==
    IF test_type \in DOMAIN cfg.test_patterns
    THEN cfg.test_patterns[test_type] ELSE <<>>

(***************************************************************************)
(* parse_arguments                                                         *)
(***************************************************************************)
RECURSIVE Join(_, _)
\* sep.join(args)
Join(args, sep) ==
    IF args = <<>> THEN ""
    ELSE IF Len(args) = 1 THEN args[1]
    ELSE args[1] \o sep \o Join(Tail(args), sep)

Parsed(action, test_type, modules, group, description) ==
    [action |-> action, test_type |-> test_type, modules |-> modules,
     group |-> group, command_description |-> description]

HelpTokens == {"help", "--help", "-h"}

\* a plausible slip: groups are looked up before test types
parse_arguments_group_first(args, cfg) ==
    IF args = <<>> THEN Parsed("test", None, None, None, "all tests")
    ELSE IF Len(args) = 1 /\ args[1] \in HelpTokens
    THEN Parsed("help", None, None, None, "help")
    ELSE IF Len(args) = 1
    THEN LET command == args[1] IN
         IF command = "lint"
         THEN Parsed("lint", None, None, None, "linting only")
         ELSE IF command = "check"
         THEN Parsed("check", None, None, None,
                     "comprehensive check (linting + all tests)")
         ELSE IF command \in DOMAIN cfg.test_groups
         THEN Parsed("test", None, None, Some(command),
                     "test group \"" \o command \o "\"")
         ELSE IF command \in get_test_types(cfg)
         THEN Parsed("test", Some(command), None, None, command \o " tests")
         ELSE Parsed("test", None, Some(<<command>>), None,
                     "module \"" \o command \o "\"")
    ELSE Parsed("test", None, Some(args), None, "modules: " \o Join(args, ", "))

\* a plausible slip: the help test does not ask for a single argument
parse_arguments_help_first(args, cfg) ==
    IF args = <<>> THEN Parsed("test", None, None, None, "all tests")
    ELSE IF args[1] \in HelpTokens
    THEN Parsed("help", None, None, None, "help")
    ELSE IF Len(args) = 1
    THEN LET command == args[1] IN
         IF command = "lint"
         THEN Parsed("lint", None, None, None, "linting only")
         ELSE IF command = "check"
         THEN Parsed("check", None, None, None,
                     "comprehensive check (linting + all tests)")
         ELSE IF command \in get_test_types(cfg)
         THEN Parsed("test", Some(command), None, None, command \o " tests")
         ELSE IF command \in DOMAIN cfg.test_groups
         THEN Parsed("test", None, None, Some(command),
                     "test group \"" \o command \o "\"")
         ELSE Parsed("test", None, Some(<<command>>), None,
                     "module \"" \o command \o "\"")
    ELSE Parsed("test", None, Some(args), None, "modules: " \o Join(args, ", "))

\* parse_arguments
parse_arguments(args, cfg) ==
    IF args = <<>> THEN Parsed("test", None, None, None, "all tests")
    ELSE IF Len(args) = 1 /\ args[1] \in HelpTokens
    THEN Parsed("help", None, None, None, "help")
    ELSE IF Len(args) = 1
    THEN LET command == args[1] IN
         IF command = "lint"
         THEN Parsed("lint", None, None, None, "linting only")
         ELSE IF command = "check"
         THEN Parsed("check", None, None, None,
                     "comprehensive check (linting + all tests)")
         ELSE IF command \in get_test_types(cfg)
         THEN Parsed("test", Some(command), None, None, command \o " tests")
         ELSE IF command \in DOMAIN cfg.test_groups
         THEN Parsed("test", None, None, Some(command),
                     "test group \"" \o command \o "\"")
         ELSE Parsed("test", None, Some(<<command>>), None,
                     "module \"" \o command \o "\"")
    ELSE Parsed("test", None, Some(args), None, "modules: " \o Join(args, ", "))

(***************************************************************************)
(* The file system: a file is its directory (components below the working  *)
(* directory) and its base name, split at the underscores, without ".py"   *)
(***************************************************************************)
File(dir, name) == [dir |-> dir, name |-> name]

FileUniverse ==
    {File(<<>>, <<"test", "a">>),
     File(<<"sub">>, <<"test", "a">>),
     File(<<"sub", "deep">>, <<"test", "a">>),
     File(<<"sub">>, <<"e2e", "test", "b", "test">>),
     File(<<>>, <<"helper">>)}

MaxFiles == 2       \* most files in the directory tree

FileSystems == {S \in SUBSET FileUniverse : Cardinality(S) <= MaxFiles}

SearchPaths == {".", "sub"}

\* the directory a search path names
SearchDir(search_path) == IF search_path = "." THEN <<>> ELSE <<search_path>>

BaseName(f) == Join(f.name, "_") \o ".py"

IsPrefix(a, b) == Len(a) <= Len(b) /\ SubSeq(b, 1, Len(a)) = a

\* the path glob returns for file f found below search_path
GlobPath(search_path, f) ==
    LET d == SearchDir(search_path)
        rel == SubSeq(f.dir, Len(d) + 1, Len(f.dir)) \o <<BaseName(f)>>
    IN  search_path \o "/" \o Join(rel, "/")

\* a glob pattern of a configuration, split at the underscores like a base name
PatternWords(pattern) ==
    CASE pattern = "test_*.py" -> <<"test", "*">>
      [] pattern = "*_test.py" -> <<"*", "test">>
      [] pattern = "integration_test_*.py" -> <<"integration", "test", "*">>
      [] pattern = "*_integration_test.py" -> <<"*", "integration", "test">>
      [] pattern = "e2e_test_*.py" -> <<"e2e", "test", "*">>
      [] pattern = "*_e2e_test.py" -> <<"*", "e2e", "test">>
      [] pattern = "regression_test_*.py" -> <<"regression", "test", "*">>
      [] pattern = "*_regression_test.py" -> <<"*", "regression", "test">>

RECURSIVE WordsMatch(_, _)
\* fnmatch of a base name against a pattern whose "*" stands between
\* underscores: the star takes one or more whole words
WordsMatch(ws, ps) ==
    IF ps = <<>> THEN ws = <<>>
    ELSE IF ps[1] = "*"
    THEN \E k \in 1..Len(ws) : WordsMatch(SubSeq(ws, k + 1, Len(ws)), Tail(ps))
    ELSE ws # <<>> /\ ws[1] = ps[1] /\ WordsMatch(Tail(ws), Tail(ps))

\* glob.glob(os.path.join(search_path, "**", pattern), recursive=True)
GlobPattern(fsys, search_path, pattern) ==
    {GlobPath(search_path, f) :
        f \in {g \in fsys : /\ IsPrefix(SearchDir(search_path), g.dir)
                            /\ WordsMatch(g.name, PatternWords(pattern))}}

\* glob.glob(os.path.join(search_path, "**", name), recursive=True)
GlobName(fsys, search_path, name) ==
    {GlobPath(search_path, f) :
        f \in {g \in fsys : /\ IsPrefix(SearchDir(search_path), g.dir)
                            /\ BaseName(g) = name}}

\* os.path.exists of a file name relative to directory dir
ExistsIn(fsys, dir, name) == \E f \in fsys : f.dir = dir /\ BaseName(f) = name

\* every path the discovery can name, in ascending order of Python's str
PathOrder ==
    <<"./helper.py", "./sub/deep/test_a.py", "./sub/e2e_test_b_test.py",
      "./sub/test_a.py", "./test_a.py", "helper.py", "sub/deep/test_a.py",
      "sub/e2e_test_b_test.py", "sub/test_a.py", "test_a.py">>

Range(q) == {q[i] : i \in 1..Len(q)}

\* sorted(list(set(paths)))
SortedSet(paths) == SelectSeq(PathOrder, LAMBDA p : p \in paths)

RECURSIVE Flatten(_)
\* the concatenation of a sequence of lists
Flatten(lists) ==
    IF lists = <<>> THEN <<>> ELSE lists[1] \o Flatten(Tail(lists))

(***************************************************************************)
(* Discovery                                                               *)
(***************************************************************************)
\* get_test_files_by_type
get_test_files_by_type(test_type, cfg, search_path, fsys) ==
    IF ~has_test_type(cfg, test_type) THEN <<>>
    ELSE LET patterns == get_patterns_for_test_type(cfg, test_type)
             test_files ==
                 Flatten([i \in 1..Len(patterns) |->
                     SortedSet(GlobPattern(fsys, search_path, patterns[i]))])
         IN  SortedSet(Range(test_files))

\* get_all_test_files: the types that have files, each with its files
get_all_test_files(cfg, search_path, fsys) ==
    LET types == {t \in get_test_types(cfg) :
                     get_test_files_by_type(t, cfg, search_path, fsys) # <<>>}
    IN  [t \in types |-> get_test_files_by_type(t, cfg, search_path, fsys)]

\* the files one module name adds in discover_files_by_modules: the first of
\* the three possible paths that is found
ModuleHits(module_name, search_path, fsys) ==
    LET name == module_name \o ".py" IN
    IF ExistsIn(fsys, <<>>, name) THEN <<name>>
    ELSE IF ExistsIn(fsys, SearchDir(search_path), name)
    THEN <<search_path \o "/" \o name>>
    ELSE SortedSet(GlobName(fsys, search_path, name))

\* a plausible slip: the hits are returned as found, neither deduplicated
\* nor sorted
discover_files_by_modules_unsorted(module_names, search_path, fsys) ==
    Flatten([i \in 1..Len(module_names) |->
        ModuleHits(module_names[i], search_path, fsys)])

\* discover_files_by_modules
discover_files_by_modules(module_names, search_path, fsys) ==
    LET test_files ==
            Flatten([i \in 1..Len(module_names) |->
                ModuleHits(module_names[i], search_path, fsys)])
    IN  SortedSet(Range(test_files))

\* a plausible slip: only the first module of the group is returned
resolve_test_group_first_only(group_name, cfg) ==
    IF group_name \notin DOMAIN cfg.test_groups THEN <<>>
    ELSE LET modules == cfg.test_groups[group_name]
         IN  IF modules = <<>> THEN <<>> ELSE <<modules[1]>>

\* resolve_test_group
resolve_test_group(group_name, cfg) ==
    IF group_name \notin DOMAIN cfg.test_groups THEN <<>>
    ELSE cfg.test_groups[group_name]

\* the union over the types of get_all_test_files, in discover_tests
AllTypesFiles(cfg, search_path, fsys) ==
    LET all_test_files == get_all_test_files(cfg, search_path, fsys)
    IN  SortedSet(UNION {Range(all_test_files[t]) : t \in DOMAIN all_test_files})

\* Python's truth value of an optional list and of an optional string
TruthyList(o) == o # None /\ Val(o) # <<>>
TruthyStr(o) == o # None /\ Val(o) # ""

Discovery(files, calls) == [files |-> files, calls |-> calls]

\* a plausible slip: the group is looked at before the explicit modules
discover_tests_group_first(test_type, modules, group, cfg, search_path, fsys) ==
    IF TruthyStr(group)
    THEN LET group_modules == resolve_test_group(Val(group), cfg) IN
         IF group_modules # <<>>
         THEN Discovery(discover_files_by_modules(group_modules, search_path, fsys),
                        <<"resolve_test_group", "discover_files_by_modules">>)
         ELSE Discovery(<<>>, <<"resolve_test_group">>)
    ELSE IF TruthyList(modules)
    THEN Discovery(discover_files_by_modules(Val(modules), search_path, fsys),
                   <<"discover_files_by_modules">>)
    ELSE IF TruthyStr(test_type)
    THEN Discovery(get_test_files_by_type(Val(test_type), cfg, search_path, fsys),
                   <<"get_test_files_by_type">>)
    ELSE Discovery(AllTypesFiles(cfg, search_path, fsys), <<"get_all_test_files">>)

\* a plausible slip: a group without modules falls through to the test type
\* and to all types
discover_tests_group_falls_back(test_type, modules, group, cfg, search_path, fsys) ==
    IF TruthyList(modules)
    THEN Discovery(discover_files_by_modules(Val(modules), search_path, fsys),
                   <<"discover_files_by_modules">>)
    ELSE IF TruthyStr(group) /\ resolve_test_group(Val(group), cfg) # <<>>
    THEN Discovery(discover_files_by_modules(resolve_test_group(Val(group), cfg),
                                             search_path, fsys),
                   <<"resolve_test_group", "discover_files_by_modules">>)
    ELSE IF TruthyStr(test_type)
    THEN Discovery(get_test_files_by_type(Val(test_type), cfg, search_path, fsys),
                   <<"get_test_files_by_type">>)
    ELSE Discovery(AllTypesFiles(cfg, search_path, fsys), <<"get_all_test_files">>)

\* discover_tests: the files it returns and the functions it calls, in order
discover_tests(test_type, modules, group, cfg, search_path, fsys) ==
    IF TruthyList(modules)
    THEN Discovery(discover_files_by_modules(Val(modules), search_path, fsys),
                   <<"discover_files_by_modules">>)
    ELSE IF TruthyStr(group)
    THEN LET group_modules == resolve_test_group(Val(group), cfg) IN
         IF group_modules # <<>>
         THEN Discovery(discover_files_by_modules(group_modules, search_path, fsys),
                        <<"resolve_test_group", "discover_files_by_modules">>)
         ELSE Discovery(<<>>, <<"resolve_test_group">>)
    ELSE IF TruthyStr(test_type)
    THEN Discovery(get_test_files_by_type(Val(test_type), cfg, search_path, fsys),
                   <<"get_test_files_by_type">>)
    ELSE Discovery(AllTypesFiles(cfg, search_path, fsys), <<"get_all_test_files">>)


(***************************************************************************)
(* Inspection: what a file holds when it is loaded                         *)
(***************************************************************************)
\* an attribute of a module or of a class, and whether it is callable
Member(name, callable) == [name |-> name, callable |-> callable]

\* a top-level attribute: kind is "testcase" (a class deriving from
\* unittest.TestCase), "base" (unittest.TestCase itself), "class" (any other
\* class), "function" or "value"
Attr(name, kind, members) == [name |-> name, kind |-> kind, members |-> members]

\* the names of the model that begin with "test"
StartsWithTest(name) ==
    name \in {"test_data", "test_fn", "test_one", "test_value", "test_x"}

\* what loading a file can give: loads is FALSE when the load raises; attrs
\* and members are in the order of dir(), which is sorted
Broken == [loads |-> FALSE, attrs |-> <<>>]
Helpers ==
    [loads |-> TRUE,
     attrs |-> <<Attr("Plain", "class", <<Member("test_x", TRUE)>>),
                 Attr("test_data", "value", <<>>),
                 Attr("util", "function", <<>>)>>]
OneClass ==
    [loads |-> TRUE,
     attrs |-> <<Attr("TestA", "testcase",
                      <<Member("helper", TRUE), Member("test_one", TRUE),
                        Member("test_value", FALSE)>>),
                 Attr("TestCase", "base", <<>>)>>]
ClassAndFn ==
    [loads |-> TRUE,
     attrs |-> <<Attr("TestA", "testcase", <<Member("test_one", TRUE)>>),
                 Attr("test_fn", "function", <<>>)>>]
ModuleContents == {Broken, Helpers, OneClass, ClassAndFn}

\* a plausible slip: the methods of every class are taken, not only those of
\* the classes that derive from unittest.TestCase
inspect_module_for_tests_any_class(module_name, file_path, content) ==
    IF ~content.loads THEN <<>>
    ELSE LET attrs == content.attrs
             ClassTests(a) ==
                 IF a.kind \in {"testcase", "class"}
                 THEN LET ms == SelectSeq(a.members,
                                    LAMBDA m : StartsWithTest(m.name) /\ m.callable)
                      IN  [i \in 1..Len(ms) |->
                              TestMethod(ms[i].name, module_name, Some(a.name),
                                         Some(file_path))]
                 ELSE <<>>
             fns == SelectSeq(attrs,
                        LAMBDA a : StartsWithTest(a.name) /\ a.kind = "function")
         IN  Flatten([i \in 1..Len(attrs) |-> ClassTests(attrs[i])])
             \o [i \in 1..Len(fns) |->
                    TestMethod(fns[i].name, module_name, None, Some(file_path))]

\* inspect_module_for_tests on a file whose load gives content
inspect_module_for_tests(module_name, file_path, content) ==
    IF ~content.loads THEN <<>>
    ELSE LET attrs == content.attrs
             ClassTests(a) ==
                 IF a.kind = "testcase"
                 THEN LET ms == SelectSeq(a.members,
                                    LAMBDA m : StartsWithTest(m.name) /\ m.callable)
                      IN  [i \in 1..Len(ms) |->
                              TestMethod(ms[i].name, module_name, Some(a.name),
                                         Some(file_path))]
                 ELSE <<>>
             fns == SelectSeq(attrs,
                        LAMBDA a : StartsWithTest(a.name) /\ a.kind = "function")
         IN  Flatten([i \in 1..Len(attrs) |-> ClassTests(attrs[i])])
             \o [i \in 1..Len(fns) |->
                    TestMethod(fns[i].name, module_name, None, Some(file_path))]

\* the paths that name file f: relative to the working directory, and as
\* glob gives it below each search path
PathsOf(f) ==
    (IF f.dir = <<>> THEN {BaseName(f)} ELSE {})
    \cup {GlobPath(sp, f) : sp \in {q \in SearchPaths : IsPrefix(SearchDir(q), f.dir)}}

FileOf(path) == CHOOSE f \in FileUniverse : path \in PathsOf(f)

\* os.path.exists(path)
PathExists(fsys, path) == \E f \in fsys : path \in PathsOf(f)

\* the module name discover_test_methods makes of a file path: normpath,
\* "/" to ".", ".py" removed
ModuleNameOf(path) ==
    LET f == FileOf(path) IN Join(f.dir \o <<Join(f.name, "_")>>, ".")

(***************************************************************************)
(* safe_import_module and sys.path                                         *)
(***************************************************************************)
MaxPathOps == 1     \* most changes a module's own code makes to sys.path

\* os.path.dirname(os.path.abspath(file_path)), the working directory being /cwd
ModuleDir(path) == "/" \o Join(<<"cwd">> \o FileOf(path).dir, "/")

\* sys.path when the runner starts
StartPath == <<"/cwd", "/lib">>

RECURSIVE Remove(_, _)
\* list.remove(x) for an x that is in the list: the first x goes
Remove(q, x) ==
    IF q = <<>> THEN <<>>
    ELSE IF Head(q) = x THEN Tail(q)
    ELSE <<Head(q)>> \o Remove(Tail(q), x)

\* a statement of a module's top-level code that changes sys.path:
\* sys.path.insert(0, dir), sys.path.append(dir) or sys.path.remove(dir)
PathOp(op, dir) == [op |-> op, dir |-> dir]

\* what the top-level code of a file does when it is executed: its changes
\* of sys.path, in order; then the import of a module that is found only when
\* the directory needs names is in sys.path (None: no such import); and
\* whether it then raises (ImportError, SyntaxError or any other exception).
\* importable says whether importlib.import_module finds the module by its
\* name when the file path is of no use
Load(ops, needs, raises, importable) ==
    [ops |-> ops, needs |-> needs, raises |-> raises, importable |-> importable]

\* a file whose code leaves sys.path alone and imports nothing of its own
QuietLoad(ok) == Load(<<>>, None, ~ok, FALSE)

RECURSIVE RunOps(_, _)
\* the statements ops run on sys.path = path; list.remove raises ValueError
\* when the directory is not in the list
RunOps(path, ops) ==
    IF ops = <<>> THEN [sys_path |-> path, raised |-> FALSE]
    ELSE LET o == Head(ops) IN
         IF o.op = "remove" /\ o.dir \notin Range(path)
         THEN [sys_path |-> path, raised |-> TRUE]
         ELSE RunOps(CASE o.op = "insert" -> <<o.dir>> \o path
                       [] o.op = "append" -> Append(path, o.dir)
                       [] o.op = "remove" -> Remove(path, o.dir),
                     Tail(ops))

\* spec.loader.exec_module(module), or the module's code run by import_module
exec_module(path, load) ==
    LET r == RunOps(path, load.ops)
        import_fails == load.needs # None /\ Val(load.needs) \notin Range(r.sys_path)
    IN  [sys_path |-> r.sys_path,
         raised |-> r.raised \/ import_fails \/ load.raises]

\* safe_import_module: whether it succeeds, and sys.path when it returns
safe_import_module(path, file_path, exists, load) ==
    IF exists
    THEN LET module_dir == ModuleDir(file_path)
             path_added == module_dir \notin Range(path)
             r == exec_module(IF path_added THEN <<module_dir>> \o path ELSE path,
                              load)
         IN  \* finally: sys.path.remove(module_dir) raises when the module's
             \* code took the directory out, and the call fails
             IF path_added /\ module_dir \notin Range(r.sys_path)
             THEN [success |-> FALSE, sys_path |-> r.sys_path]
             ELSE [success |-> ~r.raised,
                   sys_path |-> IF path_added
                                THEN Remove(r.sys_path, module_dir)
                                ELSE r.sys_path]
    ELSE IF ~load.importable THEN [success |-> FALSE, sys_path |-> path]
    ELSE LET r == exec_module(path, load)
         IN  [success |-> ~r.raised, sys_path |-> r.sys_path]

\* d[key] = value on a dict kept as the sequence of its items, in insertion order
DictSet(d, key, value) ==
    IF \E i \in 1..Len(d) : d[i].key = key
    THEN [i \in 1..Len(d) |->
             IF d[i].key = key THEN [key |-> key, value |-> value] ELSE d[i]]
    ELSE Append(d, [key |-> key, value |-> value])

\* what inspect_module_for_tests finds in a file: nothing when the load fails
Loaded(content, success) == IF success THEN content ELSE Broken

RECURSIVE discover_test_methods(_, _, _, _, _)
\* discover_test_methods with sys.path = path at the call: the dict it returns
\* and sys.path at the return; contents[file] is what the file defines and
\* loads[file] what its code does while it is loaded
discover_test_methods(path, test_files, fsys, contents, loads) ==
    IF test_files = <<>> THEN [by_module |-> <<>>, sys_path |-> path]
    ELSE LET n == Len(test_files)
             file_path == test_files[n]
             before == discover_test_methods(path, SubSeq(test_files, 1, n - 1),
                                             fsys, contents, loads)
             module_name == ModuleNameOf(file_path)
             imported == safe_import_module(before.sys_path, file_path, TRUE,
                                            loads[file_path])
             test_methods ==
                 inspect_module_for_tests(module_name, file_path,
                     Loaded(contents[file_path], imported.success))
         IN  IF ~PathExists(fsys, file_path) THEN before
             ELSE [by_module |-> IF test_methods # <<>>
                                 THEN DictSet(before.by_module, module_name,
                                              test_methods)
                                 ELSE before.by_module,
                   sys_path |-> imported.sys_path]

\* the loads of files whose code leaves sys.path alone
QuietLoads(contents) == [f \in DOMAIN contents |-> QuietLoad(contents[f].loads)]

\* sum(len(methods) for methods in test_methods_by_module.values())
TotalMethods(by_module) == Len(Flatten([i \in 1..Len(by_module) |-> by_module[i].value]))

(***************************************************************************)
(* load_config, run_lint and run_single_test_method                        *)
(***************************************************************************)
\* a configuration file: whether open and read succeed, whether it is empty,
\* whether json.load accepts it, and the JSON value it holds: its kind
\* ("object", or "array", "string", "number", "boolean", "null"), whether
\* Python takes the value as true, and the members of an object
ConfigFile(readable, empty, parses, kind, truthy, data) ==
    [readable |-> readable, empty |-> empty, parses |-> parses, kind |-> kind,
     truthy |-> truthy, data |-> data]

\* a readable configuration file: whether json.load accepts it, and the
\* object it holds
Doc(parses, data) == ConfigFile(TRUE, FALSE, parses, "object", data # EmptyData, data)

\* the exception classes of load_config's try block, each a subclass of
\* Exception
ExceptionClasses == {"OSError", "JSONDecodeError", "AttributeError"}

\* the exception the body of load_config's try block raises, or None: open
\* or read fails, json.load rejects the text, or Config.__init__ calls .get
\* on a value that is true and not an object
TryLoad(cf) ==
    IF cf = None THEN None
    ELSE IF ~Val(cf).readable THEN Some("OSError")
    ELSE IF ~Val(cf).parses THEN Some("JSONDecodeError")
    ELSE IF Val(cf).kind # "object" /\ Val(cf).truthy THEN Some("AttributeError")
    ELSE None

\* a plausible slip: only the parse errors are caught
load_config_raises_parse_errors_only(cf) ==
    IF TryLoad(cf) = None THEN None
    ELSE IF Val(TryLoad(cf)) = "JSONDecodeError" THEN None
    ELSE TryLoad(cf)

\* the exception that leaves load_config, or None: the handlers take
\* json.JSONDecodeError, then every Exception
load_config_raises(cf) ==
    IF TryLoad(cf) = None THEN None
    ELSE IF Val(TryLoad(cf)) = "JSONDecodeError" THEN None
    ELSE IF Val(TryLoad(cf)) \in ExceptionClasses THEN None
    ELSE TryLoad(cf)

\* load_config, when no exception leaves it: a missing or unreadable file,
\* an unparsable text and a value Config cannot take give the defaults, and
\* a value that is not true is replaced by {} (data or {})
load_config(cf) ==
    IF cf = None THEN Config(EmptyData)
    ELSE IF TryLoad(cf) # None THEN Config(EmptyData)
    ELSE IF Val(cf).kind # "object" THEN Config(EmptyData)
    ELSE Config(Val(cf).data)

\* what run_lint can return: -1 (no backend, or an error), 0, or the count
LintOutcomes == (0 - 1)..MaxViolations

\* what re-importing the module and running the one-test suite can give:
\* imported (safe_import_module succeeds), found (the class or function is in
\* the module and the suite is built and run without an exception), and the
\* failures, errors and unexpectedSuccesses of unittest.TestResult
RunEnv(imported, found, failures, errors, unexpected) ==
    [imported |-> imported, found |-> found, failures |-> failures,
     errors |-> errors, unexpected |-> unexpected]

RunEnvs ==
    {RunEnv(FALSE, FALSE, <<>>, <<>>, 0),
     RunEnv(TRUE, FALSE, <<>>, <<>>, 0),
     RunEnv(TRUE, TRUE, <<>>, <<>>, 0),
     RunEnv(TRUE, TRUE, <<"AssertionError: F1">>, <<>>, 0),
     RunEnv(TRUE, TRUE, <<>>, <<"ValueError: E1">>, 0),
     RunEnv(TRUE, TRUE, <<"AssertionError: F1">>, <<"ValueError: E1">>, 0),
     RunEnv(TRUE, TRUE, <<>>, <<>>, 1)}

\* the outcomes main's runs are checked with: the import fails, the test
\* passes, fails, or raises
MainRunEnvs ==
    {RunEnv(FALSE, FALSE, <<>>, <<>>, 0),
     RunEnv(TRUE, TRUE, <<>>, <<>>, 0),
     RunEnv(TRUE, TRUE, <<"AssertionError: F1">>, <<>>, 0),
     RunEnv(TRUE, TRUE, <<>>, <<"ValueError: E1">>, 0)}

\* unittest.TestResult.wasSuccessful
wasSuccessful(env) ==
    env.failures = <<>> /\ env.errors = <<>> /\ env.unexpected = 0

\* a plausible slip: the errors are looked at before the failures
run_single_test_method_errors_first(test_method, env, duration) ==
    IF ~env.imported
    THEN MethodResult(test_method, "error", duration,
                      Some("Failed to import module: ImportError"), None)
    ELSE IF ~env.found
    THEN MethodResult(test_method, "error", duration,
                      Some("AttributeError"), Some("Traceback: AttributeError"))
    ELSE IF wasSuccessful(env)
    THEN MethodResult(test_method, "pass", duration, None, None)
    ELSE IF env.errors # <<>>
    THEN MethodResult(test_method, "error", duration,
                      Some(env.errors[1]), Some(env.errors[1]))
    ELSE IF env.failures # <<>>
    THEN MethodResult(test_method, "fail", duration,
                      Some(env.failures[1]), Some(env.failures[1]))
    ELSE MethodResult(test_method, "error", duration,
                      Some("Unknown test result state"), None)

\* a plausible slip: a failed import is reported without its message
run_single_test_method_no_import_message(test_method, env, duration) ==
    IF ~env.imported
    THEN MethodResult(test_method, "error", duration, None, None)
    ELSE IF ~env.found
    THEN MethodResult(test_method, "error", duration,
                      Some("AttributeError"), Some("Traceback: AttributeError"))
    ELSE IF wasSuccessful(env)
    THEN MethodResult(test_method, "pass", duration, None, None)
    ELSE IF env.failures # <<>>
    THEN MethodResult(test_method, "fail", duration,
                      Some(env.failures[1]), Some(env.failures[1]))
    ELSE IF env.errors # <<>>
    THEN MethodResult(test_method, "error", duration,
                      Some(env.errors[1]), Some(env.errors[1]))
    ELSE MethodResult(test_method, "error", duration,
                      Some("Unknown test result state"), None)

\* a plausible slip: a failed import is left to the handler at the end, which
\* reports the message as it is and adds a traceback
run_single_test_method_import_in_handler(test_method, env, duration) ==
    IF ~env.imported
    THEN MethodResult(test_method, "error", duration,
                      Some("ImportError"), Some("Traceback: ImportError"))
    ELSE IF ~env.found
    THEN MethodResult(test_method, "error", duration,
                      Some("AttributeError"), Some("Traceback: AttributeError"))
    ELSE IF wasSuccessful(env)
    THEN MethodResult(test_method, "pass", duration, None, None)
    ELSE IF env.failures # <<>>
    THEN MethodResult(test_method, "fail", duration,
                      Some(env.failures[1]), Some(env.failures[1]))
    ELSE IF env.errors # <<>>
    THEN MethodResult(test_method, "error", duration,
                      Some(env.errors[1]), Some(env.errors[1]))
    ELSE MethodResult(test_method, "error", duration,
                      Some("Unknown test result state"), None)

\* run_single_test_method
run_single_test_method(test_method, env, duration) ==
    IF ~env.imported
    THEN MethodResult(test_method, "error", duration,
                      Some("Failed to import module: ImportError"), None)
    ELSE IF ~env.found
    THEN MethodResult(test_method, "error", duration,
                      Some("AttributeError"), Some("Traceback: AttributeError"))
    ELSE IF wasSuccessful(env)
    THEN MethodResult(test_method, "pass", duration, None, None)
    ELSE IF env.failures # <<>>
    THEN MethodResult(test_method, "fail", duration,
                      Some(env.failures[1]), Some(env.failures[1]))
    ELSE IF env.errors # <<>>
    THEN MethodResult(test_method, "error", duration,
                      Some(env.errors[1]), Some(env.errors[1]))
    ELSE MethodResult(test_method, "error", duration,
                      Some("Unknown test result state"), None)

\* the exit code of the lint command
lint_exit(count) == IF count > 0 THEN 1 ELSE 0

\* main's lint_failed under the check command
lint_failed_of(count) == count > 0

\* a plausible slip: errors do not count in the exit code
exit_status_no_errors(tr, lintFailed) ==
    IF tr.failed > 0 \/ lintFailed THEN 1 ELSE 0

\* a plausible slip: the run counts as passed as soon as one test has passed
exit_status_any_pass(tr, lintFailed) ==
    IF tr.passed = 0 \/ lintFailed THEN 1 ELSE 0

\* the exit code at the end of main
exit_status(tr, lintFailed) ==
    IF tr.failed > 0 \/ tr.errors > 0 \/ lintFailed THEN 1 ELSE 0

(***************************************************************************)
(* The inputs of the model                                                 *)
(***************************************************************************)
\* a testrules.json with groups (one named like a test type, one empty) and
\* coverage switched off
CustomData ==
    [test_groups |-> [core |-> <<"test_a">>, unit |-> <<"helper">>,
                      empty |-> <<>>],
     coverage_enabled |-> FALSE]

ConfigFiles == {None, Some(Doc(TRUE, CustomData))}

\* a testrules.json whose test types and groups are named like commands
ShadowData ==
    [test_patterns |-> [unit |-> <<"test_*.py">>, lint |-> <<"test_*.py">>,
                        help |-> <<"*_test.py">>],
     test_groups |-> [check |-> <<"test_a">>, lint |-> <<"helper">>,
                      core |-> <<"test_a", "helper">>]]

\* the configuration files parse_arguments and discover_tests are checked with
AllConfigFiles == ConfigFiles \cup {Some(Doc(TRUE, ShadowData))}

Tokens == {"help", "--help", "-h", "lint", "check", "unit", "core", "all",
           "test_a", "nofile"}

RECURSIVE SeqsUpTo(_, _)
\* the sequences over S of length at most n
SeqsUpTo(S, n) ==
    IF n = 0 THEN {<<>>}
    ELSE LET shorter == SeqsUpTo(S, n - 1)
         IN  shorter \cup {Append(q, x) : q \in shorter, x \in S}

\* the argument lists main is run with
MainArgvs ==
    {<<>>, <<"help">>, <<"--help">>, <<"-h">>, <<"lint">>, <<"check">>,
     <<"unit">>, <<"core">>, <<"nofile">>, <<"test_a", "helper">>}

MaxMethods == 2     \* most test methods in one run

(***************************************************************************)
(* main                                                                    *)
(***************************************************************************)
Logged(calls) == log' = log \o calls

MainInit ==
    /\ argv \in MainArgvs
    /\ config_file \in ConfigFiles
    /\ fs \in FileSystems
    /\ config = None
    /\ pc = "start"
    /\ parsed_args = None
    /\ violation_count = None
    /\ lint_failed = FALSE
    /\ din = None
    /\ discovered_files = <<>>
    /\ test_methods_by_module = <<>>
    /\ queue = <<>>
    /\ test_result = None
    /\ cov = None
    /\ now = 1
    /\ exit_code = None
    /\ log = <<>>
    /\ sys_path = StartPath
    /\ world = None

\* main: load_config and parse_arguments
MainStart ==
    /\ pc = "start"
    /\ config' = load_config(config_file)
    /\ parsed_args' = parse_arguments(argv, config')
    /\ pc' = "parsed"
    /\ Logged(<<"load_config", "parse_arguments">>)
    /\ UNCHANGED <<inputVars, envVars, violation_count, lint_failed, exit_code,
                   discVars, runVars>>

\* a plausible slip: the help command does not return
MainHelp_no_return ==
    /\ pc = "parsed"
    /\ parsed_args.action = "help"
    /\ pc' = "discover"
    /\ Logged(<<"show_help">>)
    /\ UNCHANGED <<inputVars, envVars, config, parsed_args, violation_count,
                   lint_failed, exit_code, discVars, runVars>>

\* main: the help command
MainHelp ==
    /\ pc = "parsed"
    /\ parsed_args.action = "help"
    /\ exit_code' = Some(0)
    /\ pc' = "done"
    /\ Logged(<<"show_help">>)
    /\ UNCHANGED <<inputVars, envVars, config, parsed_args, violation_count,
                   lint_failed, discVars, runVars>>

\* a plausible slip: the lint command does not return and goes on to the tests
MainLint_then_tests ==
    /\ pc = "parsed"
    /\ parsed_args.action = "lint"
    /\ \E count \in LintOutcomes :
          /\ violation_count' = Some(count)
          /\ lint_failed' = lint_failed_of(count)
    /\ pc' = "discover"
    /\ Logged(<<"run_lint", "report_lint_results">>)
    /\ UNCHANGED <<inputVars, envVars, config, parsed_args, exit_code, discVars,
                   runVars>>

\* main: the lint command
MainLint ==
    /\ pc = "parsed"
    /\ parsed_args.action = "lint"
    /\ \E count \in LintOutcomes :
          /\ violation_count' = Some(count)
          /\ exit_code' = Some(lint_exit(count))
    /\ pc' = "done"
    /\ Logged(<<"run_lint", "report_lint_results">>)
    /\ UNCHANGED <<inputVars, envVars, config, parsed_args, lint_failed, discVars,
                   runVars>>

\* a plausible slip: a lint failure ends the check command at once
MainCheckLint_short_circuit ==
    /\ pc = "parsed"
    /\ parsed_args.action = "check"
    /\ \E count \in LintOutcomes :
          /\ violation_count' = Some(count)
          /\ lint_failed' = lint_failed_of(count)
          /\ IF lint_failed_of(count)
             THEN pc' = "done" /\ exit_code' = Some(1)
             ELSE pc' = "discover" /\ UNCHANGED exit_code
    /\ Logged(<<"run_lint", "report_lint_results">>)
    /\ UNCHANGED <<inputVars, envVars, config, parsed_args, discVars, runVars>>

\* main: the lint pass of the check command
MainCheckLint ==
    /\ pc = "parsed"
    /\ parsed_args.action = "check"
    /\ \E count \in LintOutcomes :
          /\ violation_count' = Some(count)
          /\ lint_failed' = lint_failed_of(count)
    /\ pc' = "discover"
    /\ Logged(<<"run_lint", "report_lint_results">>)
    /\ UNCHANGED <<inputVars, envVars, config, parsed_args, exit_code, discVars,
                   runVars>>

\* main: discover_tests, and the exit when it finds no file
MainDiscover ==
    /\ \/ pc = "discover"
       \/ pc = "parsed" /\ parsed_args.action = "test"
    /\ LET d == discover_tests(parsed_args.test_type, parsed_args.modules,
                               parsed_args.group, config, ".", fs)
       IN  /\ din' = Some([test_type |-> parsed_args.test_type,
                           modules |-> parsed_args.modules,
                           group |-> parsed_args.group, search_path |-> "."])
           /\ discovered_files' = d.files
           /\ Logged(<<"discover_tests">> \o d.calls)
           /\ IF d.files = <<>>
              THEN pc' = "done" /\ exit_code' = Some(1)
              ELSE pc' = "inspect" /\ UNCHANGED exit_code
    /\ UNCHANGED <<inputVars, envVars, config, parsed_args, violation_count,
                   lint_failed, runVars>>

\* a plausible slip: main does not look at the number of test methods
MainInspect_no_check ==
    /\ pc = "inspect"
    /\ \E contents \in [Range(discovered_files) -> ModuleContents] :
          LET by_module == discover_test_methods(sys_path, discovered_files, fs,
                               contents, QuietLoads(contents)).by_module
          IN  /\ TotalMethods(by_module) <= MaxMethods
              /\ test_methods_by_module' = by_module
    /\ pc' = "run"
    /\ Logged(<<"discover_test_methods">>)
    /\ UNCHANGED <<inputVars, envVars, config, parsed_args, violation_count,
                   lint_failed, exit_code, discVars, queue, test_result, cov,
                   now>>

\* main: discover_test_methods, and the exit when it finds no test method
MainInspect ==
    /\ pc = "inspect"
    /\ \E contents \in [Range(discovered_files) -> ModuleContents] :
          LET found == discover_test_methods(sys_path, discovered_files, fs,
                                             contents, QuietLoads(contents))
              by_module == found.by_module
          IN  /\ TotalMethods(by_module) <= MaxMethods
              /\ test_methods_by_module' = by_module
              /\ sys_path' = found.sys_path
              /\ IF TotalMethods(by_module) = 0
                 THEN pc' = "done" /\ exit_code' = Some(1)
                 ELSE pc' = "run" /\ UNCHANGED exit_code
    /\ Logged(<<"discover_test_methods">>)
    /\ UNCHANGED <<inputVars, world, config, parsed_args, violation_count,
                   lint_failed, discVars, queue, test_result, cov, now>>

\* run_tests, up to the loop: start_timing and start_coverage_collection,
\* which gives no coverage object when the backend is missing or fails
RunStart ==
    /\ pc = "run"
    /\ test_result' = start_timing(NewTestResult, now)
    /\ queue' = Flatten([i \in 1..Len(test_methods_by_module) |->
                            test_methods_by_module[i].value])
    /\ IF config.coverage_enabled
       THEN /\ \E started \in BOOLEAN :
                  cov' = IF started THEN Some("coverage") ELSE None
            /\ Logged(<<"run_tests", "start_coverage_collection">>)
       ELSE cov' = None /\ Logged(<<"run_tests">>)
    /\ pc' = "running"
    /\ UNCHANGED <<inputVars, envVars, config, parsed_args, violation_count,
                   lint_failed, exit_code, discVars, test_methods_by_module,
                   now>>

\* a plausible slip: the loop takes the methods from the end of the list
RunMethod_last_first ==
    /\ pc = "running"
    /\ queue # <<>>
    /\ \E env \in MainRunEnvs, duration \in 1..MaxDuration :
          /\ test_result' =
                 add_result(test_result,
                            run_single_test_method(queue[Len(queue)], env, duration))
          /\ now' = now + duration
          /\ sys_path' = safe_import_module(sys_path,
                             Val(queue[Len(queue)].file_path),
                             TRUE, QuietLoad(env.imported)).sys_path
    /\ queue' = SubSeq(queue, 1, Len(queue) - 1)
    /\ Logged(<<"run_single_test_method">>)
    /\ UNCHANGED <<inputVars, world, mainVars, discVars, test_methods_by_module,
                   cov>>

\* a plausible slip: stop_timing is called in the loop, after every method
RunMethod_stops_timing ==
    /\ pc = "running"
    /\ queue # <<>>
    /\ \E env \in MainRunEnvs, duration \in 1..MaxDuration :
          /\ test_result' =
                 stop_timing(add_result(test_result,
                                run_single_test_method(Head(queue), env, duration)),
                             now + duration)
          /\ now' = now + duration
          /\ sys_path' = safe_import_module(sys_path, Val(Head(queue).file_path),
                                            TRUE, QuietLoad(env.imported)).sys_path
    /\ queue' = Tail(queue)
    /\ Logged(<<"run_single_test_method">>)
    /\ UNCHANGED <<inputVars, world, mainVars, discVars, test_methods_by_module,
                   cov>>

\* run_tests: one turn of the loop, run_single_test_method and add_result
RunMethod ==
    /\ pc = "running"
    /\ queue # <<>>
    /\ \E env \in MainRunEnvs, duration \in 1..MaxDuration :
          /\ test_result' =
                 add_result(test_result,
                            run_single_test_method(Head(queue), env, duration))
          /\ now' = now + duration
          /\ sys_path' = safe_import_module(sys_path, Val(Head(queue).file_path),
                                            TRUE, QuietLoad(env.imported)).sys_path
    /\ queue' = Tail(queue)
    /\ Logged(<<"run_single_test_method">>)
    /\ UNCHANGED <<inputVars, world, mainVars, discVars, test_methods_by_module,
                   cov>>

\* run_tests, after the loop: stop_timing and stop_coverage_collection
RunFinish ==
    /\ pc = "running"
    /\ queue = <<>>
    /\ test_result' = stop_timing(test_result, now)
    /\ Logged(<<"stop_coverage_collection">>)
    /\ pc' = "report"
    /\ UNCHANGED <<inputVars, envVars, config, parsed_args, violation_count,
                   lint_failed, exit_code, discVars, test_methods_by_module,
                   queue, cov, now>>

\* the reports main asks for after run_tests
ReportCalls(cfg, coverage_obj) ==
    <<"report_test_summary", "report_detailed_test_results">>
    \o (IF coverage_obj # None /\ cfg.coverage_enabled
        THEN <<"generate_coverage_report">>
             \o (IF cfg.html_coverage
                 THEN <<"generate_html_coverage_report">> ELSE <<>>)
        ELSE <<>>)

\* main: the reports and the exit code
MainReport ==
    /\ pc = "report"
    /\ Logged(ReportCalls(config, cov))
    /\ exit_code' = Some(exit_status(test_result, lint_failed))
    /\ pc' = "done"
    /\ UNCHANGED <<inputVars, envVars, config, parsed_args, violation_count,
                   lint_failed, discVars, runVars>>

Next ==
    \/ MainStart
    \/ MainHelp
    \/ MainLint
    \/ MainCheckLint
    \/ MainDiscover
    \/ MainInspect
    \/ RunStart
    \/ RunMethod
    \/ RunFinish
    \/ MainReport

Spec == MainInit /\ [][Next]_vars

(***************************************************************************)
(* TestResult on its own: any sequence of add_result                       *)
(***************************************************************************)
\* the variables that main does not use are left as they are
Idle ==
    /\ argv = <<>>
    /\ config_file = None
    /\ fs = {}
    /\ config = None
    /\ parsed_args = None
    /\ violation_count = None
    /\ lint_failed = FALSE
    /\ din = None
    /\ discovered_files = <<>>
    /\ test_methods_by_module = <<>>
    /\ queue = <<>>
    /\ cov = None
    /\ exit_code = None
    /\ log = <<>>
    /\ sys_path = StartPath
    /\ world = None

SampleMethods ==
    {TestMethod("test_one", "test_a", Some("TestA"), Some("test_a.py")),
     TestMethod("test_fn", "test_a", None, Some("test_a.py"))}

\* the MethodResult values of the data model: a pass carries no error
SampleResults ==
    {MethodResult(m, "pass", d, None, None) :
        m \in SampleMethods, d \in 1..MaxDuration}
    \cup {MethodResult(m, st, d, Some("E"), Some("Traceback")) :
        m \in SampleMethods, st \in {"fail", "error"}, d \in 1..MaxDuration}

ResultInit ==
    /\ Idle
    /\ pc = "result"
    /\ test_result = NewTestResult
    /\ now = 1

\* test_result.add_result(method_result)
AddResult ==
    /\ pc = "result"
    /\ Len(test_result.method_results) < MaxResults
    /\ \E mr \in SampleResults : test_result' = add_result(test_result, mr)
    /\ UNCHANGED <<inputVars, envVars, mainVars, discVars, test_methods_by_module,
                   queue, cov, now, log>>

\* success_rate = test_results.get_success_rate()
ReadSuccessRate ==
    /\ pc = "result"
    /\ world' = Some(get_success_rate(test_result))
    /\ pc' = "rated"
    /\ UNCHANGED <<inputVars, sys_path, config, parsed_args, violation_count,
                   lint_failed, exit_code, discVars, runVars, log>>

ResultNext == AddResult \/ ReadSuccessRate

SpecResult == ResultInit /\ [][ResultNext]_vars

(***************************************************************************)
(* parse_arguments on its own: any argument list, any configuration        *)
(***************************************************************************)
ParseInit ==
    /\ argv \in SeqsUpTo(Tokens, MaxArgs)
    /\ config_file \in AllConfigFiles
    /\ config = load_config(config_file)
    /\ pc = "parse"
    /\ fs = {}
    /\ parsed_args = None
    /\ violation_count = None
    /\ lint_failed = FALSE
    /\ din = None
    /\ discovered_files = <<>>
    /\ test_methods_by_module = <<>>
    /\ queue = <<>>
    /\ test_result = None
    /\ cov = None
    /\ now = 1
    /\ exit_code = None
    /\ log = <<>>
    /\ sys_path = StartPath
    /\ world = None

\* parsed_args = parse_arguments(args, config)
ParseArgs ==
    /\ pc = "parse"
    /\ parsed_args' = parse_arguments(argv, config)
    /\ pc' = "parsed_only"
    /\ UNCHANGED <<inputVars, envVars, config, violation_count, lint_failed, exit_code,
                   discVars, runVars, log>>

ParseNext == ParseArgs

SpecParse == ParseInit /\ [][ParseNext]_vars

(***************************************************************************)
(* discover_tests on its own: any arguments, configuration and files       *)
(***************************************************************************)
MaxModules == 2     \* longest list of module names

ModuleNames == {"test_a", "helper", "nofile", "e2e_test_b_test"}

DiscoverInputs ==
    [test_type : {None, Some(""), Some("unit"), Some("e2e"), Some("bogus")},
     modules : {None} \cup {Some(q) : q \in SeqsUpTo(ModuleNames, MaxModules)},
     group : {None, Some(""), Some("core"), Some("empty"), Some("nogroup")},
     search_path : SearchPaths]

DiscoverInit ==
    /\ din \in {Some(d) : d \in DiscoverInputs}
    /\ config_file \in AllConfigFiles
    /\ config = load_config(config_file)
    /\ fs \in FileSystems
    /\ pc = "discover_only"
    /\ argv = <<>>
    /\ parsed_args = None
    /\ violation_count = None
    /\ lint_failed = FALSE
    /\ discovered_files = <<>>
    /\ test_methods_by_module = <<>>
    /\ queue = <<>>
    /\ test_result = None
    /\ cov = None
    /\ now = 1
    /\ exit_code = None
    /\ log = <<>>
    /\ sys_path = StartPath
    /\ world = None

\* discovered_files = discover_tests(test_type, modules, group, config, search_path)
DiscoverCall ==
    /\ pc = "discover_only"
    /\ LET a == Val(din)
           d == discover_tests(a.test_type, a.modules, a.group, config,
                               a.search_path, fs)
       IN  discovered_files' = d.files /\ log' = d.calls
    /\ pc' = "discovered"
    /\ UNCHANGED <<inputVars, envVars, config, parsed_args, violation_count,
                   lint_failed, exit_code, din, runVars>>

DiscoverNext == DiscoverCall

SpecDiscover == DiscoverInit /\ [][DiscoverNext]_vars

(***************************************************************************)
(* The claims                                                              *)
(***************************************************************************)
Count(q, x) == Cardinality({i \in 1..Len(q) : q[i] = x})

\* the first place of x in q, or 0
Index(q, x) ==
    IF x \in Range(q) THEN CHOOSE i \in 1..Len(q) :
                                /\ q[i] = x
                                /\ \A j \in 1..(i - 1) : q[j] # x
    ELSE 0

\* C1: after any sequence of add_result calls on a fresh TestResult, total
\* equals passed + failed + errors and equals the number of recorded results
C1_CountersAgree ==
    /\ test_result.total
         = test_result.passed + test_result.failed + test_result.errors
    /\ test_result.total = Len(test_result.method_results)

C1_Witness ==
    /\ test_result.passed > 0
    /\ test_result.failed > 0
    /\ test_result.errors > 0

\* the calls that belong to discovery, inspection, execution and coverage
TestCalls ==
    {"discover_tests", "discover_files_by_modules", "resolve_test_group",
     "get_test_files_by_type", "get_all_test_files", "discover_test_methods",
     "run_tests", "start_coverage_collection", "run_single_test_method",
     "stop_coverage_collection", "report_test_summary",
     "report_detailed_test_results", "generate_coverage_report",
     "generate_html_coverage_report"}

LintCalls == {"run_lint", "report_lint_results"}

HasStatus(st) ==
    \E i \in 1..Len(test_result.method_results) :
        test_result.method_results[i].status = st

C3_LintFailureExitsOne ==
    (pc = "done" /\ violation_count # None)
    => /\ Val(violation_count) # 0 => exit_code = Some(1)
       /\ exit_code = Some(0) => Val(violation_count) = 0

\* C4: under the check command lint runs and is reported before discovery
\* and execution start, and whatever lint returned the run goes on to the
\* discovery and runs every test method it finds
C4_LintThenTests ==
    (parsed_args # None /\ parsed_args.action = "check")
    => /\ \A i \in 1..Len(log) :
             log[i] \in TestCalls
             => /\ 0 < Index(log, "run_lint")
                /\ Index(log, "run_lint") < Index(log, "report_lint_results")
                /\ Index(log, "report_lint_results") < i
       /\ pc = "done"
            => /\ Count(log, "run_lint") = 1
               /\ Count(log, "discover_tests") = 1
               /\ Count(log, "run_single_test_method")
                    = TotalMethods(test_methods_by_module)
               /\ discovered_files # <<>>
                    => Count(log, "discover_test_methods") = 1

C4_Witness ==
    /\ pc = "done"
    /\ parsed_args.action = "check"
    /\ lint_failed
    /\ test_result # None
    /\ Count(log, "run_single_test_method") = 2

\* C5: under the lint command nothing of discovery, inspection, execution
\* or coverage is ever done, and the exit code is given by the violation
\* count alone
C5_LintOnly ==
    (parsed_args # None /\ parsed_args.action = "lint")
    => /\ Range(log) \cap TestCalls = {}
       /\ din = None
       /\ discovered_files = <<>>
       /\ test_methods_by_module = <<>>
       /\ test_result = None
       /\ cov = None
       /\ pc = "done"
            => /\ violation_count # None
               /\ exit_code
                    = Some(IF Val(violation_count) > 0 THEN 1 ELSE 0)

C5_Witness ==
    /\ pc = "done"
    /\ parsed_args.action = "lint"
    /\ violation_count = Some(MaxViolations)
    /\ exit_code = Some(1)

\* C6: when discovery gives no file (an unknown token taken as a module
\* name included) or the files give no test method, main exits 1 and runs
\* no test, under test and under check, whatever lint returned
C6_NothingToRun ==
    (/\ pc = "done"
     /\ "discover_tests" \in Range(log)
     /\ discovered_files = <<>> \/ TotalMethods(test_methods_by_module) = 0)
    => /\ exit_code = Some(1)
       /\ test_result = None
       /\ "run_tests" \notin Range(log)
       /\ "run_single_test_method" \notin Range(log)

C6_Witness ==
    /\ pc = "done"
    /\ argv = <<"nofile">>
    /\ parsed_args.modules = Some(<<"nofile">>)
    /\ discovered_files = <<>>
    /\ exit_code = Some(1)

\* C7: when the one token is help, --help or -h, main prints the help and
\* exits 0, and does no lint, no discovery and no execution
C7_Help ==
    (Len(argv) = 1 /\ argv[1] \in {"help", "--help", "-h"})
    => /\ Range(log) \cap (TestCalls \cup LintCalls) = {}
       /\ pc \in {"start", "parsed", "done"}
       /\ pc = "done" => /\ exit_code = Some(0)
                         /\ Count(log, "show_help") = 1

C7_Witness ==
    /\ pc = "done"
    /\ argv = <<"-h">>
    /\ exit_code = Some(0)
    /\ "show_help" \in Range(log)

\* what a command token selects: the action, the test type and the group
Selection(action, test_type, group) ==
    [action |-> action, test_type |-> test_type, group |-> group]

SelectionOf(parsed) == Selection(parsed.action, parsed.test_type, parsed.group)

IsCommand(token) == token \in {"help", "--help", "-h", "lint", "check"}
IsType(token, cfg) == token \in DOMAIN cfg.test_patterns
IsGroup(token, cfg) == token \in DOMAIN cfg.test_groups

\* the selection of a token that is a command, a test type or a group
SelectedBy(token, cfg) ==
    IF token \in {"help", "--help", "-h"} THEN Selection("help", None, None)
    ELSE IF token \in {"lint", "check"} THEN Selection(token, None, None)
    ELSE IF IsType(token, cfg) THEN Selection("test", Some(token), None)
    ELSE Selection("test", None, Some(token))

Selects(token, cfg) ==
    IsCommand(token) \/ IsType(token, cfg) \/ IsGroup(token, cfg)

\* C8, as claimed: the leftmost token decides; for every non-empty argument
\* list whose first token is a command, a test type or a group, the action,
\* test type and group are the ones that token selects, whatever follows it
C8_LeftmostDecides ==
    (pc = "parsed_only" /\ argv # <<>> /\ Selects(argv[1], config))
    => SelectionOf(parsed_args) = SelectedBy(argv[1], config)

\* C8, amended: a command, test type or group is selected only by an
\* argument list of that one token; a list of two or more tokens is a list
\* of module names, whatever its first token is
C8_SingleTokenDecides ==
    pc = "parsed_only"
    => /\ (Len(argv) = 1 /\ Selects(argv[1], config))
            => /\ SelectionOf(parsed_args) = SelectedBy(argv[1], config)
               /\ parsed_args.modules = None
       /\ Len(argv) >= 2
            => /\ SelectionOf(parsed_args) = Selection("test", None, None)
               /\ parsed_args.modules = Some(argv)

C8_Witness ==
    /\ pc = "parsed_only"
    /\ Len(argv) = 2
    /\ argv[1] = "--help"
    /\ parsed_args.action = "test"
    /\ parsed_args.modules = Some(argv)

NonNull(parsed) ==
    Cardinality({k \in {"test_type", "modules", "group"} : parsed[k] # None})

\* C9: one token is classified help, then lint, then check, then test type,
\* then group, then module name (a name that is a test type and a group is a
\* test type); no token selects all tests; two or more tokens are the module
\* list; a result with action test has at most one of test_type, modules
\* and group
C9_Precedence ==
    pc = "parsed_only"
    => LET p == parsed_args
           t == argv[1]
       IN  /\ argv = <<>>
                => p.action = "test" /\ NonNull(p) = 0
           /\ (Len(argv) = 1 /\ t \in {"help", "--help", "-h"})
                => p.action = "help" /\ NonNull(p) = 0
           /\ (Len(argv) = 1 /\ t = "lint")
                => p.action = "lint" /\ NonNull(p) = 0
           /\ (Len(argv) = 1 /\ t = "check")
                => p.action = "check" /\ NonNull(p) = 0
           /\ (Len(argv) = 1 /\ ~IsCommand(t) /\ IsType(t, config))
                => p.action = "test" /\ p.test_type = Some(t) /\ NonNull(p) = 1
           /\ (Len(argv) = 1 /\ ~IsCommand(t) /\ ~IsType(t, config)
                 /\ IsGroup(t, config))
                => p.action = "test" /\ p.group = Some(t) /\ NonNull(p) = 1
           /\ (Len(argv) = 1 /\ ~Selects(t, config))
                => p.action = "test" /\ p.modules = Some(<<t>>) /\ NonNull(p) = 1
           /\ Len(argv) >= 2
                => p.action = "test" /\ p.modules = Some(argv) /\ NonNull(p) = 1
           /\ p.action = "test" => NonNull(p) <= 1

C9_Witness ==
    /\ pc = "parsed_only"
    /\ argv = <<"unit">>
    /\ IsType("unit", config)
    /\ IsGroup("unit", config)
    /\ parsed_args.test_type = Some("unit")
    /\ parsed_args.group = None

GlobCalls == {"get_test_files_by_type", "get_all_test_files"}

\* C10: discover_tests applies one strategy, explicit modules before group
\* before test type before all types: with a non-empty module list neither
\* the group nor the patterns are consulted; with no module list and a
\* group, the patterns are not consulted; the patterns of one type are
\* consulted only when neither a module list nor a group is given
C10_OneStrategy ==
    pc = "discovered"
    => LET a == Val(din) IN
       /\ TruthyList(a.modules)
            => /\ log = <<"discover_files_by_modules">>
               /\ discovered_files
                    = discover_files_by_modules(Val(a.modules), a.search_path, fs)
       /\ (~TruthyList(a.modules) /\ TruthyStr(a.group))
            => /\ Range(log) \cap GlobCalls = {}
               /\ Head(log) = "resolve_test_group"
               /\ discovered_files
                    = discover_files_by_modules(
                          resolve_test_group(Val(a.group), config),
                          a.search_path, fs)
       /\ "get_test_files_by_type" \in Range(log)
            => /\ ~TruthyList(a.modules) /\ ~TruthyStr(a.group)
               /\ TruthyStr(a.test_type)
               /\ log = <<"get_test_files_by_type">>
       /\ "get_all_test_files" \in Range(log)
            => /\ ~TruthyList(a.modules) /\ ~TruthyStr(a.group)
               /\ ~TruthyStr(a.test_type)

C10_Witness ==
    /\ pc = "discovered"
    /\ Val(din).modules = Some(<<"helper">>)
    /\ Val(din).group = Some("core")
    /\ Val(din).test_type = Some("unit")
    /\ IsGroup("core", config)
    /\ discovered_files = <<"helper.py">>
    /\ log = <<"discover_files_by_modules">>

(***************************************************************************)
(* Discovery output and module-name discovery                              *)
(***************************************************************************)
\* a < b for Python's str, on the paths of the model
PathLess(a, b) == Index(PathOrder, a) < Index(PathOrder, b)

\* the module names the discover_tests call resolves, when it takes the
\* modules or the group strategy (<<>> otherwise)
RequestedModules ==
    LET a == Val(din) IN
    IF TruthyList(a.modules) THEN Val(a.modules)
    ELSE IF TruthyStr(a.group) THEN resolve_test_group(Val(a.group), config)
    ELSE <<>>

\* the hits of the requested modules, in the order they are found
RawHits ==
    Flatten([i \in 1..Len(RequestedModules) |->
        ModuleHits(RequestedModules[i], Val(din).search_path, fs)])

\* C11: whatever the arguments, the configuration and the files, the list
\* discover_tests returns names known paths only, in strictly ascending order
\* of the path strings, hence without a duplicate
C11_SortedNoDuplicates ==
    pc = "discovered" =>
        /\ \A i \in 1..Len(discovered_files) : discovered_files[i] \in Range(PathOrder)
        /\ \A i, j \in 1..Len(discovered_files) :
               i < j => PathLess(discovered_files[i], discovered_files[j])

\* the hits were found out of order or twice, and discovery returned two files
C11_Witness ==
    /\ pc = "discovered"
    /\ Len(discovered_files) >= 2
    /\ RawHits # <<>>
    /\ RawHits # discovered_files

\* the paths of the returned list that name a file called name
OutputFor(name) ==
    {p \in Range(discovered_files) : BaseName(FileOf(p)) = name}

\* C12: in module-name discovery each requested name gives the returned list
\* at most one file, the first hit among <name>.py, <search_path>/<name>.py
\* and the recursive glob, a name without a hit gives nothing, and the list
\* holds nothing else
C12_OneFilePerModule ==
    (pc = "discovered" /\ RequestedModules # <<>>) =>
        /\ \A i \in 1..Len(RequestedModules) :
              LET name == RequestedModules[i] \o ".py"
                  sp == Val(din).search_path
                  out == OutputFor(name)
              IN  /\ Cardinality(out) <= 1
                  /\ IF ExistsIn(fs, <<>>, name) THEN out = {name}
                     ELSE IF ExistsIn(fs, SearchDir(sp), name)
                     THEN out = {sp \o "/" \o name}
                     ELSE IF GlobName(fs, sp, name) # {}
                     THEN out # {} /\ out \subseteq GlobName(fs, sp, name)
                     ELSE out = {}
        /\ \A p \in Range(discovered_files) :
              \E i \in 1..Len(RequestedModules) :
                  p \in OutputFor(RequestedModules[i] \o ".py")

(***************************************************************************)
(* A group and the list of its modules                                     *)
(***************************************************************************)
\* the call was discover_tests(group=G) for a group G of the configuration
\* (no module list; the test type, which both strategies precede, is free)
GroupCall ==
    /\ pc = "discovered"
    /\ Val(din).modules = None
    /\ TruthyStr(Val(din).group)
    /\ Val(Val(din).group) \in DOMAIN config.test_groups

\* what discover_tests(modules=L) returns for the list L the group maps to,
\* with the other arguments, the files and the search path of the call
FilesOfGroupList ==
    LET a == Val(din)
        L == config.test_groups[Val(a.group)]
    IN  discover_tests(a.test_type, Some(L), None, config, a.search_path, fs).files

\* C13 as stated: for every module list L and group G that maps to L,
\* discover_tests(group=G) returns the list discover_tests(modules=L) returns
C13_GroupEqualsModules ==
    GroupCall => discovered_files = FilesOfGroupList

\* C13, amended: the two calls return the same list for every non-empty L
C13_GroupEqualsNonEmptyModules ==
    (GroupCall /\ config.test_groups[Val(Val(din).group)] # <<>>) =>
        discovered_files = FilesOfGroupList

\* a group of two modules was resolved and both of its files were found
C13_Witness ==
    /\ GroupCall
    /\ Len(config.test_groups[Val(Val(din).group)]) = 2
    /\ Len(discovered_files) = 2

(***************************************************************************)
(* safe_import_module on its own: any sys.path, any file, any code in it   *)
(***************************************************************************)
StartPaths == {StartPath, <<"/lib">>, <<"/cwd/sub", "/lib">>}

ImportFiles == {"test_a.py", "sub/test_a.py"}

\* the statements on sys.path a test file may hold: about its own directory
\* and about a source directory next to it
PathOps ==
    {PathOp(op, dir) : op \in {"insert", "append", "remove"},
                       dir \in {"/cwd/sub", "/cwd/src"}}

Loads ==
    {Load(ops, needs, raises, importable) :
        ops \in SeqsUpTo(PathOps, MaxPathOps),
        needs \in {None, Some("/cwd/src")}, raises \in BOOLEAN,
        importable \in BOOLEAN}

ImportInit ==
    /\ sys_path \in StartPaths
    /\ fs \in FileSystems
    /\ world \in {Some([file_path |-> f, load |-> l]) :
                     f \in ImportFiles, l \in Loads}
    /\ pc = "import"
    /\ argv = <<>>
    /\ config_file = None
    /\ config = None
    /\ parsed_args = None
    /\ violation_count = None
    /\ lint_failed = FALSE
    /\ din = None
    /\ discovered_files = <<>>
    /\ test_methods_by_module = <<>>
    /\ queue = <<>>
    /\ test_result = None
    /\ cov = None
    /\ now = 1
    /\ exit_code = None
    /\ log = <<>>

\* module, success, error_msg = safe_import_module(module_name, file_path),
\* as inspect_module_for_tests and run_single_test_method call it
ImportCall ==
    /\ pc = "import"
    /\ LET a == Val(world)
           r == safe_import_module(sys_path, a.file_path,
                                   PathExists(fs, a.file_path), a.load)
       IN  /\ sys_path' = r.sys_path
           /\ log' = <<IF r.success THEN "import succeeded" ELSE "import failed">>
    /\ pc' = "imported"
    /\ UNCHANGED <<inputVars, world, config, parsed_args, violation_count,
                   lint_failed, exit_code, discVars, runVars>>

ImportNext == ImportCall

SpecImport == ImportInit /\ [][ImportNext]_vars

\* C14: sys.path when safe_import_module returns is sys.path as it was when
\* it was called, whether the load succeeds or fails
C14_SysPathRestored == [][pc = "import" => sys_path' = sys_path]_vars

(***************************************************************************)
(* discover_test_methods on its own: any list of files, any code in them   *)
(***************************************************************************)
InspectFiles == {"helper.py", "sub/deep/test_a.py", "sub/test_a.py", "test_a.py"}

\* the source of a file: what it defines, the statements on sys.path it
\* begins with, and the directory its own import needs
FileCode(content, ops, needs) ==
    [content |-> content, load |-> Load(ops, needs, ~content.loads, FALSE)]

FileCodes ==
    {FileCode(Broken, <<>>, None),
     FileCode(Broken, <<PathOp("insert", "/cwd/src")>>, None),
     FileCode(Helpers, <<>>, None),
     FileCode(OneClass, <<>>, None),
     FileCode(OneClass, <<>>, Some("/cwd/src")),
     FileCode(ClassAndFn, <<PathOp("insert", "/cwd/src")>>, Some("/cwd/src"))}

\* the lists discover_tests can return: sorted, without duplicates
FileLists ==
    {SortedSet(S) : S \in {T \in SUBSET InspectFiles : Cardinality(T) <= MaxFiles}}

InspectInit ==
    /\ discovered_files \in FileLists
    /\ fs \in FileSystems
    /\ world \in {Some(code) : code \in [Range(discovered_files) -> FileCodes]}
    /\ sys_path = StartPath
    /\ pc = "inspect_only"
    /\ argv = <<>>
    /\ config_file = None
    /\ config = None
    /\ parsed_args = None
    /\ violation_count = None
    /\ lint_failed = FALSE
    /\ din = None
    /\ test_methods_by_module = <<>>
    /\ queue = <<>>
    /\ test_result = None
    /\ cov = None
    /\ now = 1
    /\ exit_code = None
    /\ log = <<>>

\* what the files of the list define, and what their code does
ContentsOf(code) == [f \in DOMAIN code |-> code[f].content]
LoadsOf(code) == [f \in DOMAIN code |-> code[f].load]

\* test_methods_by_module = discover_test_methods(test_files)
InspectCall ==
    /\ pc = "inspect_only"
    /\ LET found == discover_test_methods(sys_path, discovered_files, fs,
                        ContentsOf(Val(world)), LoadsOf(Val(world)))
       IN  /\ test_methods_by_module' = found.by_module
           /\ sys_path' = found.sys_path
    /\ pc' = "inspected"
    /\ UNCHANGED <<inputVars, world, config, parsed_args, violation_count,
                   lint_failed, exit_code, discVars, queue, test_result, cov,
                   now, log>>

InspectNext == InspectCall

SpecInspect == InspectInit /\ [][InspectNext]_vars

\* the list q without its i-th element
Without(q, i) == SubSeq(q, 1, i - 1) \o SubSeq(q, i + 1, Len(q))

\* the i-th file of the list is missing, or its load fails when its turn comes
FailsAt(i) ==
    LET f == discovered_files[i]
        before == discover_test_methods(StartPath, SubSeq(discovered_files, 1, i - 1),
                      fs, ContentsOf(Val(world)), LoadsOf(Val(world)))
    IN  \/ ~PathExists(fs, f)
        \/ ~safe_import_module(before.sys_path, f, TRUE, Val(world)[f].load).success

\* every test method of the returned dict, in order
MethodsOf(by_module) ==
    Flatten([i \in 1..Len(by_module) |-> by_module[i].value])

\* C15: a file that is missing or whose load fails gives no test method, and
\* the dict discover_test_methods returns is the one it returns for the list
\* without that file
C15_FailureIsolated ==
    pc = "inspected" =>
        \A i \in 1..Len(discovered_files) :
            FailsAt(i) =>
                /\ \A k \in 1..Len(MethodsOf(test_methods_by_module)) :
                      MethodsOf(test_methods_by_module)[k].file_path
                          # Some(discovered_files[i])
                /\ test_methods_by_module =
                       discover_test_methods(StartPath, Without(discovered_files, i),
                           fs, ContentsOf(Val(world)), LoadsOf(Val(world))).by_module

(***************************************************************************)
(* run_single_test_method on its own: any outcome of the one-test suite    *)
(***************************************************************************)
MaxEntries == 2     \* most entries in result.failures and in result.errors

FailureEntries == {"AssertionError: F1", "AssertionError: F2"}
ErrorEntries == {"ValueError: E1", "ValueError: E2"}

\* every outcome: the import fails, the class or function is not found, or
\* the suite runs and unittest.TestResult holds any failures, errors and
\* unexpected successes
SingleRunEnvs ==
    {RunEnv(FALSE, FALSE, <<>>, <<>>, 0), RunEnv(TRUE, FALSE, <<>>, <<>>, 0)}
    \cup {RunEnv(TRUE, TRUE, failures, errors, unexpected) :
             failures \in SeqsUpTo(FailureEntries, MaxEntries),
             errors \in SeqsUpTo(ErrorEntries, MaxEntries),
             unexpected \in 0..1}

SingleInit ==
    /\ queue \in {<<m>> : m \in SampleMethods}
    /\ world \in {Some([env |-> e, duration |-> d]) :
                     e \in SingleRunEnvs, d \in 0..MaxDuration}
    /\ test_result = NewTestResult
    /\ sys_path = StartPath
    /\ pc = "single"
    /\ now = 1
    /\ argv = <<>>
    /\ config_file = None
    /\ fs = {}
    /\ config = None
    /\ parsed_args = None
    /\ violation_count = None
    /\ lint_failed = FALSE
    /\ din = None
    /\ discovered_files = <<>>
    /\ test_methods_by_module = <<>>
    /\ cov = None
    /\ exit_code = None
    /\ log = <<>>

\* result = run_single_test_method(test_method); test_result.add_result(result)
SingleRun ==
    /\ pc = "single"
    /\ LET a == Val(world)
           test_method == Head(queue)
       IN  /\ test_result' =
                  add_result(test_result,
                             run_single_test_method(test_method, a.env, a.duration))
           /\ sys_path' = safe_import_module(sys_path, Val(test_method.file_path),
                              TRUE, QuietLoad(a.env.imported)).sys_path
           /\ now' = now + a.duration
    /\ queue' = Tail(queue)
    /\ pc' = "single_done"
    /\ UNCHANGED <<inputVars, world, config, parsed_args, violation_count,
                   lint_failed, exit_code, discVars, test_methods_by_module,
                   cov, log>>

SingleNext == SingleRun

SpecSingle == SingleInit /\ [][SingleNext]_vars

\* the MethodResult of the call, and the unittest.TestResult it was made from
SingleResult == test_result.method_results[1]
SuiteResult == Val(world).env
SuiteRan == pc = "single_done" /\ SuiteResult.imported /\ SuiteResult.found

\* C16: when the suite has run, the status is decided in this order:
\* successful gives pass without error or traceback; else a failure gives
\* fail with the first failure, whatever the errors; else an error gives
\* error with the first error; else error with "Unknown test result state"
C16_StatusMapping ==
    SuiteRan =>
        LET r == SuiteResult
            mr == SingleResult
        IN  IF r.failures = <<>> /\ r.errors = <<>> /\ r.unexpected = 0
            THEN mr.status = "pass" /\ mr.error = None /\ mr.traceback_str = None
            ELSE IF r.failures # <<>>
            THEN /\ mr.status = "fail"
                 /\ mr.error = Some(r.failures[1])
                 /\ mr.traceback_str = Some(r.failures[1])
            ELSE IF r.errors # <<>>
            THEN /\ mr.status = "error"
                 /\ mr.error = Some(r.errors[1])
                 /\ mr.traceback_str = Some(r.errors[1])
            ELSE /\ mr.status = "error"
                 /\ mr.error = Some("Unknown test result state")

\* failures and errors are both present, two failures among them, and the
\* result is a fail
C16_Witness ==
    /\ SuiteRan
    /\ Len(SuiteResult.failures) = 2
    /\ SuiteResult.failures[1] # SuiteResult.failures[2]
    /\ SuiteResult.errors # <<>>
    /\ SingleResult.status = "fail"

\* C17: a MethodResult of run_single_test_method is a pass exactly when its
\* error and its traceback are both None
C17_PassIffNoError ==
    pc = "single_done" =>
        (SingleResult.status = "pass"
            <=> (SingleResult.error = None /\ SingleResult.traceback_str = None))

\* a result that is not a pass and has an error but no traceback: the import
\* failed
C17_Witness ==
    /\ pc = "single_done"
    /\ ~SuiteResult.imported
    /\ SingleResult.status = "error"
    /\ SingleResult.error # None
    /\ SingleResult.traceback_str = None

(***************************************************************************)
(* The order of the results of run_tests                                   *)
(***************************************************************************)
\* the test methods of the results recorded so far, in order
MethodsRun ==
    [i \in 1..Len(test_result.method_results) |->
        test_result.method_results[i].method]

\* run_tests is running or has returned
InRunTests == test_result # None

\* C18: the results of run_tests are those of the test methods of the input
\* dict, one each, modules in the order of the dict and methods in the order
\* of their list: while the loop runs the methods done followed by the
\* methods to do are that sequence, and when run_tests has returned the
\* methods done are all of it
C18_ExecutionOrder ==
    InRunTests =>
        /\ MethodsRun \o queue = MethodsOf(test_methods_by_module)
        /\ pc \in {"report", "done"} => queue = <<>>

\* run_tests has returned the results of two methods of two modules
C18_Witness ==
    /\ pc = "report"
    /\ Len(test_methods_by_module) = 2
    /\ Len(MethodsRun) = 2
    /\ MethodsRun[1] # MethodsRun[2]

(***************************************************************************)
(* run_tests and the end of main on their own: any coverage situation      *)
(***************************************************************************)
\* what the coverage backend does: available is COVERAGE_AVAILABLE, and the
\* other fields say whether coverage.Coverage()/start(), stop()/save(), the
\* console report and html_report() return (TRUE) or raise (FALSE)
CoverageEnv(available, start_ok, stop_ok, report_ok, html_ok) ==
    [available |-> available, start_ok |-> start_ok, stop_ok |-> stop_ok,
     report_ok |-> report_ok, html_ok |-> html_ok]

CoverageEnvs ==
    {CoverageEnv(FALSE, FALSE, FALSE, FALSE, FALSE),
     CoverageEnv(TRUE, FALSE, FALSE, FALSE, FALSE)}
    \cup {CoverageEnv(TRUE, TRUE, s, r, h) : s \in BOOLEAN, r \in BOOLEAN,
                                            h \in BOOLEAN}

\* start_coverage_collection: the coverage object, or None
start_coverage_collection(ce) ==
    IF ~ce.available THEN None
    ELSE IF ~ce.start_ok THEN None
    ELSE Some("coverage")

\* stop_coverage_collection
stop_coverage_collection(coverage_obj, ce) ==
    IF coverage_obj = None THEN FALSE ELSE ce.stop_ok

\* generate_coverage_report: the summary, or None
generate_coverage_report(coverage_obj, ce) ==
    IF coverage_obj = None THEN None
    ELSE IF ~ce.report_ok THEN None
    ELSE Some("summary")

\* generate_html_coverage_report
generate_html_coverage_report(coverage_obj, cfg, ce) ==
    IF coverage_obj = None THEN FALSE
    ELSE IF ~cfg.html_coverage THEN FALSE
    ELSE ce.html_ok

\* the test methods run_tests is given, one module each or both in one
MethodLists ==
    {q \in SeqsUpTo(SampleMethods, MaxMethods) :
        q # <<>> /\ \A i, j \in 1..Len(q) : i # j => q[i] # q[j]}

CoverageInit ==
    /\ queue \in MethodLists
    /\ \E ce \in CoverageEnvs :
          world \in {Some([envs |-> e, coverage |-> ce]) :
                        e \in [1..Len(queue) -> MainRunEnvs]}
    /\ config \in {Config([coverage_enabled |-> c, html_coverage |-> h]) :
                      c \in BOOLEAN, h \in BOOLEAN}
    /\ lint_failed \in BOOLEAN
    /\ test_methods_by_module = <<[key |-> "test_a", value |-> queue]>>
    /\ pc = "cov_run"
    /\ test_result = None
    /\ cov = None
    /\ now = 1
    /\ sys_path = StartPath
    /\ argv = <<>>
    /\ config_file = None
    /\ fs = {}
    /\ parsed_args = None
    /\ violation_count = None
    /\ din = None
    /\ discovered_files = <<>>
    /\ exit_code = None
    /\ log = <<>>

\* run_tests, up to the loop
CoverageRunStart ==
    /\ pc = "cov_run"
    /\ test_result' = start_timing(NewTestResult, now)
    /\ IF config.coverage_enabled
       THEN /\ cov' = start_coverage_collection(Val(world).coverage)
            /\ Logged(<<"run_tests", "start_coverage_collection">>)
       ELSE cov' = None /\ Logged(<<"run_tests">>)
    /\ pc' = "cov_running"
    /\ UNCHANGED <<inputVars, envVars, config, parsed_args, violation_count,
                   lint_failed, exit_code, discVars, test_methods_by_module,
                   queue, now>>

\* run_tests: one turn of the loop, with the outcome the test has
CoverageRunMethod ==
    /\ pc = "cov_running"
    /\ queue # <<>>
    /\ LET k == Len(test_result.method_results) + 1
           outcome == Val(world).envs[k]
       IN  /\ test_result' =
                  add_result(test_result,
                             run_single_test_method(Head(queue), outcome, 1))
           /\ sys_path' = safe_import_module(sys_path, Val(Head(queue).file_path),
                              TRUE, QuietLoad(outcome.imported)).sys_path
    /\ now' = now + 1
    /\ queue' = Tail(queue)
    /\ Logged(<<"run_single_test_method">>)
    /\ UNCHANGED <<inputVars, world, mainVars, discVars, test_methods_by_module,
                   cov>>

\* run_tests, after the loop: stop_coverage_collection logs how it went
CoverageRunFinish ==
    /\ pc = "cov_running"
    /\ queue = <<>>
    /\ test_result' = stop_timing(test_result, now)
    /\ Logged(<<"stop_coverage_collection",
                IF stop_coverage_collection(cov, Val(world).coverage)
                THEN "coverage saved" ELSE "coverage not saved">>)
    /\ pc' = "cov_report"
    /\ UNCHANGED <<inputVars, envVars, config, parsed_args, violation_count,
                   lint_failed, exit_code, discVars, test_methods_by_module,
                   queue, cov, now>>

\* a plausible slip: main asks for the reports whenever coverage is enabled,
\* with or without a coverage object
CoverageReports_without_handle(cfg, coverage_obj, ce) ==
    IF cfg.coverage_enabled
    THEN <<"generate_coverage_report",
           IF generate_coverage_report(coverage_obj, ce) # None
           THEN "coverage reported" ELSE "coverage not reported">>
         \o (IF cfg.html_coverage
             THEN <<"generate_html_coverage_report",
                    IF generate_html_coverage_report(coverage_obj, cfg, ce)
                    THEN "html written" ELSE "html not written">>
             ELSE <<>>)
    ELSE <<>>

\* the coverage reports main asks for, each with how it went
CoverageReports(cfg, coverage_obj, ce) ==
    IF coverage_obj # None /\ cfg.coverage_enabled
    THEN <<"generate_coverage_report",
           IF generate_coverage_report(coverage_obj, ce) # None
           THEN "coverage reported" ELSE "coverage not reported">>
         \o (IF cfg.html_coverage
             THEN <<"generate_html_coverage_report",
                    IF generate_html_coverage_report(coverage_obj, cfg, ce)
                    THEN "html written" ELSE "html not written">>
             ELSE <<>>)
    ELSE <<>>

\* a plausible slip: a coverage report that fails makes the run fail
CoverageReport_failure_exits_one ==
    /\ pc = "cov_report"
    /\ Logged(<<"report_test_summary", "report_detailed_test_results">>
              \o CoverageReports(config, cov, Val(world).coverage))
    /\ exit_code' =
           Some(IF cov # None /\ config.coverage_enabled
                   /\ generate_coverage_report(cov, Val(world).coverage) = None
                THEN 1 ELSE exit_status(test_result, lint_failed))
    /\ pc' = "cov_done"
    /\ UNCHANGED <<inputVars, envVars, config, parsed_args, violation_count,
                   lint_failed, discVars, runVars>>

\* main: the reports and the exit code
CoverageReport ==
    /\ pc = "cov_report"
    /\ Logged(<<"report_test_summary", "report_detailed_test_results">>
              \o CoverageReports(config, cov, Val(world).coverage))
    /\ exit_code' = Some(exit_status(test_result, lint_failed))
    /\ pc' = "cov_done"
    /\ UNCHANGED <<inputVars, envVars, config, parsed_args, violation_count,
                   lint_failed, discVars, runVars>>

CoverageNext ==
    \/ CoverageRunStart
    \/ CoverageRunMethod
    \/ CoverageRunFinish
    \/ CoverageReport

SpecCoverage == CoverageInit /\ [][CoverageNext]_vars

\* the results the same test methods with the same outcomes have when no
\* coverage is asked for
ResultsWithoutCoverage ==
    LET methods == MethodsOf(test_methods_by_module)
    IN  [i \in 1..Len(methods) |->
            run_single_test_method(methods[i], Val(world).envs[i], 1)]

\* the number of results of status st among them
CountWithoutCoverage(st) ==
    Cardinality({i \in 1..Len(ResultsWithoutCoverage) :
                    ResultsWithoutCoverage[i].status = st})

\* C19: whatever the coverage configuration and whatever the coverage backend
\* does (missing, failing at start, at stop, in the reports), the statuses of
\* the results, the counters and the exit code are those of the same tests
\* run without coverage
C19_CoverageNeutral ==
    pc = "cov_done" =>
        /\ Len(test_result.method_results) = Len(ResultsWithoutCoverage)
        /\ \A i \in 1..Len(ResultsWithoutCoverage) :
              test_result.method_results[i].status = ResultsWithoutCoverage[i].status
        /\ test_result.total = Len(ResultsWithoutCoverage)
        /\ test_result.passed = CountWithoutCoverage("pass")
        /\ test_result.failed = CountWithoutCoverage("fail")
        /\ test_result.errors = CountWithoutCoverage("error")
        /\ exit_code = Some(IF CountWithoutCoverage("pass") < Len(ResultsWithoutCoverage)
                               \/ lint_failed
                            THEN 1 ELSE 0)

\* coverage was started, stop and both reports failed, and the run exits 0
C19_Witness ==
    /\ pc = "cov_done"
    /\ config.coverage_enabled /\ config.html_coverage
    /\ cov # None
    /\ ~Val(world).coverage.stop_ok
    /\ ~Val(world).coverage.report_ok
    /\ ~Val(world).coverage.html_ok
    /\ exit_code = Some(0)

(***************************************************************************)
(* The success rate                                                        *)
(***************************************************************************)
\* the rate get_success_rate has returned
Rate == Val(world)

\* 100.0
Hundred == Nearest(100, 1, 0)

\* every recorded result is a pass, and there is one
AllPassed ==
    /\ test_result.total > 0
    /\ \A i \in 1..Len(test_result.method_results) :
          test_result.method_results[i].status = "pass"

\* C20 as stated: the rate is 0.0 when total is 0 and otherwise exactly
\* 100 * passed / total (the float nearest to that number), hence 100 exactly
\* when every recorded result is a pass and total > 0
C20_ExactRate ==
    pc = "rated" =>
        /\ test_result.total = 0 => Rate = Zero
        /\ test_result.total > 0 =>
              Rate = Nearest(100 * test_result.passed, test_result.total, 0)
        /\ Rate = Hundred <=> AllPassed

\* C20, amended: the rate is 0.0 when total is 0; otherwise it is
\* 100 * passed / total up to the two roundings of (passed / total) * 100.0,
\* a relative error of at most 2^-(MantissaBits - 2); and it is 100 exactly
\* when every recorded result is a pass and total > 0
C20_RoundedRate ==
    pc = "rated" =>
        /\ test_result.total = 0 => Rate = Zero
        /\ test_result.total > 0 =>
              LET scale == 2^(0 - Rate.e)
                  exact == 100 * test_result.passed * scale
                  got == Rate.m * test_result.total
                  diff == IF got >= exact THEN got - exact ELSE exact - got
              IN  /\ Rate.e <= 0
                  /\ diff <= exact \div 2^(MantissaBits - 2)
        /\ Rate = Hundred <=> AllPassed

\* one result of three is a pass: the rate is not the float nearest to 100/3
C20_Witness ==
    /\ pc = "rated"
    /\ test_result.total = 3
    /\ test_result.passed = 1
    /\ Rate # Nearest(100, 3, 0)

(***************************************************************************)
(* load_config on its own: every configuration file                        *)
(***************************************************************************)
\* the JSON objects with one member at most: key absent, or key with one of
\* the values
Member1(key, values) == {EmptyData} \cup {[k \in {key} |-> v] : v \in values}

\* the JSON objects a configuration file can hold: each key of Config absent
\* or present
ConfigObjects ==
    {a @@ b @@ c @@ d @@ e :
        a \in Member1("test_patterns", {[unit |-> <<"test_*.py">>]}),
        b \in Member1("test_groups", {[core |-> <<"test_a">>]}),
        c \in Member1("coverage_enabled", BOOLEAN),
        d \in Member1("html_coverage", BOOLEAN),
        e \in Member1("html_coverage_dir", {"htmlcov", "out"})}

\* the configuration files: missing, unreadable (a directory, no permission),
\* empty, not JSON, a JSON value that is not an object, and the objects
LoadFiles ==
    {None,
     Some(ConfigFile(FALSE, FALSE, FALSE, "null", FALSE, EmptyData)),
     Some(ConfigFile(TRUE, TRUE, FALSE, "null", FALSE, EmptyData)),
     Some(ConfigFile(TRUE, FALSE, FALSE, "null", FALSE, EmptyData)),
     Some(ConfigFile(TRUE, FALSE, TRUE, "null", FALSE, EmptyData))}
    \cup {Some(ConfigFile(TRUE, FALSE, TRUE, kind, truthy, EmptyData)) :
            kind \in {"array", "string", "number", "boolean"}, truthy \in BOOLEAN}
    \cup {Some(Doc(TRUE, data)) : data \in ConfigObjects}

ConfigInit ==
    /\ argv = <<>>
    /\ config_file \in LoadFiles
    /\ fs = {}
    /\ config = None
    /\ pc = "load"
    /\ parsed_args = None
    /\ violation_count = None
    /\ lint_failed = FALSE
    /\ din = None
    /\ discovered_files = <<>>
    /\ test_methods_by_module = <<>>
    /\ queue = <<>>
    /\ test_result = None
    /\ cov = None
    /\ now = 1
    /\ exit_code = None
    /\ log = <<>>
    /\ sys_path = StartPath
    /\ world = None

\* config = load_config(): world keeps the exception that leaves the call
LoadConfig ==
    /\ pc = "load"
    /\ world' = Some([raised |-> load_config_raises(config_file)])
    /\ config' = IF load_config_raises(config_file) = None
                 THEN load_config(config_file) ELSE config
    /\ pc' = "loaded"
    /\ Logged(<<"load_config">>)
    /\ UNCHANGED <<inputVars, sys_path, parsed_args, violation_count,
                   lint_failed, exit_code, discVars, runVars>>

ConfigNext == LoadConfig

SpecConfig == ConfigInit /\ [][ConfigNext]_vars

\* the files the defaults are promised for: missing, unreadable, empty,
\* unparsable, and the document {}
GivesDefaults(cf) ==
    \/ cf = None
    \/ ~Val(cf).readable
    \/ Val(cf).empty
    \/ ~Val(cf).parses
    \/ Val(cf).kind = "object" /\ Val(cf).data = EmptyData

(* C21: load_config never raises, and a missing file, an empty file, a file *)
(* that is not JSON, a file that cannot be read and the document {} all     *)
(* give a Config with the default test_patterns, test_groups,               *)
(* coverage_enabled, html_coverage and html_coverage_dir.                   *)
C21_DefaultsOnFailure ==
    pc = "loaded" =>
        /\ Val(world).raised = None
        /\ GivesDefaults(config_file) =>
              /\ config.test_patterns = DefaultPatterns
              /\ config.test_groups = DefaultGroups
              /\ config.coverage_enabled = TRUE
              /\ config.html_coverage = TRUE
              /\ config.html_coverage_dir = "htmlcov"

\* load_config has returned from a file that could not be read
C21_Witness ==
    /\ pc = "loaded"
    /\ config_file # None
    /\ ~Val(config_file).readable
    /\ config = Config(EmptyData)

(***************************************************************************)
(* inspect_module_for_tests on its own: every module content               *)
(***************************************************************************)
MaxAttrs == 2       \* most attributes of a module, and most of a class

\* the names of the attributes of a module and of a class, in the order of dir()
AttrNames == <<"TestA", "test_fn", "util">>
MemberNames == <<"helper", "test_one", "test_value">>

\* the subsequences of q with n elements at most
SubSeqsUpTo(q, n) ==
    {SelectSeq(q, LAMBDA x : x \in S) :
        S \in {T \in SUBSET Range(q) : Cardinality(T) <= n}}

RECURSIVE MembersNamed(_)
\* the attributes of a class with these names: test_value is a method or a
\* plain value, the others are methods
MembersNamed(names) ==
    IF names = <<>> THEN {<<>>}
    ELSE {<<Member(Head(names), c)>> \o rest :
             c \in (IF Head(names) = "test_value" THEN BOOLEAN ELSE {TRUE}),
             rest \in MembersNamed(Tail(names))}

\* the attribute lists of a class with n attributes at most
MemberLists(n) == UNION {MembersNamed(names) : names \in SubSeqsUpTo(MemberNames, n)}

\* what a top-level name can be bound to: unittest.TestCase itself, a
\* function, a value, or a class (deriving from TestCase or not) with its
\* attributes
AttrsNamed(name) ==
    {Attr(name, kind, <<>>) : kind \in {"base", "function", "value"}}
    \cup {Attr(name, kind, ms) : kind \in {"testcase", "class"},
                                  ms \in MemberLists(MaxAttrs)}

RECURSIVE AttrLists(_)
AttrLists(names) ==
    IF names = <<>> THEN {<<>>}
    ELSE {<<a>> \o rest : a \in AttrsNamed(Head(names)),
                          rest \in AttrLists(Tail(names))}

\* what loading a file can give: a failure, or a module with n top-level
\* names at most
AllModuleContents(n) ==
    {Broken}
    \cup {[loads |-> TRUE, attrs |-> attrs] :
            attrs \in UNION {AttrLists(names) :
                               names \in SubSeqsUpTo(AttrNames, n)}}

ReflectInit ==
    /\ argv = <<>>
    /\ config_file = None
    /\ fs = {}
    /\ config = None
    /\ pc = "reflect"
    /\ parsed_args = None
    /\ violation_count = None
    /\ lint_failed = FALSE
    /\ din = None
    /\ discovered_files = <<>>
    /\ test_methods_by_module = <<>>
    /\ queue = <<>>
    /\ test_result = None
    /\ cov = None
    /\ now = 1
    /\ exit_code = None
    /\ log = <<>>
    /\ sys_path = StartPath
    /\ \E content \in AllModuleContents(MaxAttrs) : world = Some(content)

\* test_methods = inspect_module_for_tests(module_name, file_path), on a
\* file whose load gives the content in world
Reflect ==
    /\ pc = "reflect"
    /\ queue' = inspect_module_for_tests("test_a", "test_a.py", Val(world))
    /\ pc' = "reflected"
    /\ Logged(<<"inspect_module_for_tests">>)
    /\ UNCHANGED <<inputVars, envVars, config, parsed_args, violation_count,
                   lint_failed, exit_code, discVars, test_methods_by_module,
                   test_result, cov, now>>

ReflectNext == Reflect

SpecReflect == ReflectInit /\ [][ReflectNext]_vars

\* the module that was inspected, and the test methods emitted for it
Inspected == Val(world).attrs
Emitted == queue

(* C22: inspect_module_for_tests emits a test method with a class name only *)
(* for a callable whose name begins with test on a top-level class that     *)
(* derives from unittest.TestCase and is not TestCase itself, and a test    *)
(* method without a class name only for a top-level callable that is not a  *)
(* class and whose name begins with test.                                   *)
C22_OnlyTests ==
    pc = "reflected" =>
        \A i \in 1..Len(Emitted) :
            LET m == Emitted[i]
            IN  /\ StartsWithTest(m.name)
                /\ IF m.class_name # None
                   THEN \E j \in 1..Len(Inspected) :
                           /\ Inspected[j].name = Val(m.class_name)
                           /\ Inspected[j].kind = "testcase"
                           /\ \E k \in 1..Len(Inspected[j].members) :
                                 /\ Inspected[j].members[k].name = m.name
                                 /\ Inspected[j].members[k].callable
                   ELSE \E j \in 1..Len(Inspected) :
                           /\ Inspected[j].name = m.name
                           /\ Inspected[j].kind = "function"

\* a module with a TestCase class and a plain class, both with a test
\* method, was inspected and one method with a class name was emitted
C22_Witness ==
    /\ pc = "reflected"
    /\ Len(Inspected) = 2
    /\ Inspected[1].kind = "testcase"
    /\ Inspected[2].kind = "class"
    /\ \E k \in 1..Len(Inspected[2].members) :
          Inspected[2].members[k] = Member("test_one", TRUE)
    /\ Len(Emitted) = 1
    /\ Emitted[1].class_name = Some("TestA")

(***************************************************************************)
(* run_tests on its own: the one-test suites and what they call            *)
(***************************************************************************)
\* what running one unittest.TestCase instance does: the test is skipped, or
\* setUpClass raises, and then no hook runs; else setUp passes or raises;
\* when it has passed the test method runs (it passes, fails an assertion,
\* raises, or passes although it is an expected failure) and tearDown runs
\* and passes or raises
Fixture(setup, test, teardown) == [setup |-> setup, test |-> test, teardown |-> teardown]

Fixtures ==
    {Fixture(setup, "pass", "ok") : setup \in {"error", "skip", "class_error"}}
    \cup {Fixture("ok", test, teardown) :
            test \in {"pass", "fail", "error", "unexpected"},
            teardown \in {"ok", "error"}}

\* the hooks and the test method unittest calls for one test
HookCalls(fx) ==
    IF fx.setup \in {"skip", "class_error"} THEN <<>>
    ELSE <<"setUp">> \o (IF fx.setup = "ok" THEN <<"test", "tearDown">> ELSE <<>>)

\* what re-importing the module and building the suite can give: load is
\* "ok", "error" (the load raises an Exception, safe_import_module reports
\* the failure) or "exit" (the code of the module raises SystemExit, which
\* is not an Exception); missing is "class" or "method" when the name is no
\* longer in the module, else "none"
Execution(load, missing, fixture) ==
    [load |-> load, missing |-> missing, fixture |-> fixture]

Executions ==
    {Execution(load, "none", Fixture("ok", "pass", "ok")) : load \in {"error", "exit"}}
    \cup {Execution("ok", missing, Fixture("ok", "pass", "ok")) :
            missing \in {"class", "method"}}
    \cup {Execution("ok", "none", fx) : fx \in Fixtures}

\* the unittest.TestResult of the one-test suite
RunEnvOf(x) ==
    LET fx == x.fixture
    IN  RunEnv(x.load = "ok", x.missing = "none",
               IF fx.setup = "ok" /\ fx.test = "fail"
               THEN <<"AssertionError: F1">> ELSE <<>>,
               (IF fx.setup \in {"error", "class_error"} \/ fx.test = "error"
                THEN <<"ValueError: E1">> ELSE <<>>)
               \o (IF fx.setup = "ok" /\ fx.teardown = "error"
                   THEN <<"ValueError: E2">> ELSE <<>>),
               IF fx.setup = "ok" /\ fx.test = "unexpected" THEN 1 ELSE 0)

\* the calls run_single_test_method makes, in order, and the suite it
\* builds (None when none is built)
Called(calls, suite) == [calls |-> calls, suite |-> suite]

\* a plausible slip: the suite is loaded from the whole class, so it holds
\* every test method of the class
SuiteOf_whole_class(test_method, x) ==
    IF x.load # "ok"
    THEN Called(<<"safe_import_module">>, None)
    ELSE IF x.missing # "none"
    THEN Called(<<"safe_import_module", "getattr">>, None)
    ELSE Called(<<"safe_import_module", "getattr", "TestSuite", "addTest", "run">>
                \o HookCalls(x.fixture) \o HookCalls(x.fixture),
                Some(<<test_method.full_name, test_method.module \o ".other">>))

SuiteOf(test_method, x) ==
    IF x.load # "ok"
    THEN Called(<<"safe_import_module">>, None)
    ELSE IF test_method.class_name # None
    THEN IF x.missing = "class"
         THEN Called(<<"safe_import_module", "getattr">>, None)
         ELSE IF x.missing = "method"
         THEN Called(<<"safe_import_module", "getattr", "TestSuite", "test_class">>,
                     Some(<<>>))
         ELSE Called(<<"safe_import_module", "getattr", "TestSuite", "test_class",
                       "addTest", "run">> \o HookCalls(x.fixture),
                     Some(<<test_method.full_name>>))
    ELSE IF x.missing # "none"
         THEN Called(<<"safe_import_module", "getattr">>, None)
         ELSE Called(<<"safe_import_module", "getattr", "TestSuite",
                       "FunctionTestCase", "addTest", "run">> \o HookCalls(x.fixture),
                     Some(<<test_method.full_name>>))

\* a plausible slip: the try block has no handler
run_single_test_method_raises_no_handler(x) ==
    IF x.load = "exit" THEN Some("SystemExit")
    ELSE IF x.load = "ok" /\ x.missing # "none" THEN Some("AttributeError")
    ELSE None

\* the exception that leaves run_single_test_method, or None: the handlers
\* of safe_import_module and of run_single_test_method take every Exception,
\* and SystemExit is none
run_single_test_method_raises(x) ==
    IF x.load = "exit" THEN Some("SystemExit")
    ELSE None

\* the test methods a run is made of
ExecuteMethods ==
    {TestMethod("test_one", "test_a", Some("TestA"), Some("test_a.py")),
     TestMethod("test_two", "test_a", Some("TestA"), Some("test_a.py")),
     TestMethod("test_fn", "test_a", None, Some("test_a.py"))}

ExecuteInit ==
    /\ argv = <<>>
    /\ config_file = None
    /\ fs = {}
    /\ config = None
    /\ pc = "executing"
    /\ parsed_args = None
    /\ violation_count = None
    /\ lint_failed = FALSE
    /\ din = None
    /\ discovered_files = <<>>
    /\ test_methods_by_module = <<>>
    /\ queue \in {q \in SeqsUpTo(ExecuteMethods, MaxMethods) :
                       \A i, j \in 1..Len(q) : q[i] = q[j] => i = j}
    /\ test_result = start_timing(NewTestResult, 1)
    /\ cov = None
    /\ now = 1
    /\ exit_code = None
    /\ log = <<>>
    /\ sys_path = StartPath
    /\ world = None

\* run_tests: one turn of the loop; an exception that leaves
\* run_single_test_method leaves run_tests too, and world keeps it
ExecuteMethod ==
    /\ pc = "executing"
    /\ queue # <<>>
    /\ \E x \in Executions, duration \in 1..MaxDuration :
          LET test_method == Head(queue)
              done == SuiteOf(test_method, x)
          IN  /\ test_method.class_name = None => x.missing # "class"
              /\ log' = Append(log, [method |-> test_method, execution |-> x,
                                     calls |-> done.calls, suite |-> done.suite])
              /\ sys_path' = safe_import_module(sys_path, Val(test_method.file_path),
                                 TRUE, QuietLoad(x.load = "ok")).sys_path
              /\ now' = now + duration
              /\ IF run_single_test_method_raises(x) # None
                 THEN /\ world' = Some(Val(run_single_test_method_raises(x)))
                      /\ pc' = "raised"
                      /\ UNCHANGED <<test_result, queue>>
                 ELSE /\ test_result' =
                             add_result(test_result,
                                        run_single_test_method(test_method,
                                                               RunEnvOf(x), duration))
                      /\ queue' = Tail(queue)
                      /\ UNCHANGED <<world, pc>>
    /\ UNCHANGED <<inputVars, config, parsed_args, violation_count, lint_failed,
                   exit_code, discVars, test_methods_by_module, cov>>

\* run_tests, after the loop: stop_timing
ExecuteFinish ==
    /\ pc = "executing"
    /\ queue = <<>>
    /\ test_result' = stop_timing(test_result, now)
    /\ pc' = "executed"
    /\ UNCHANGED <<inputVars, envVars, config, parsed_args, violation_count,
                   lint_failed, exit_code, discVars, test_methods_by_module,
                   queue, cov, now, log>>

ExecuteNext == ExecuteMethod \/ ExecuteFinish

SpecExecute == ExecuteInit /\ [][ExecuteNext]_vars

\* the messages safe_import_module reports a failure with
ImportMessages ==
    {"ImportError", "SyntaxError", "Unexpected error importing",
     "Could not create module spec"}

\* the i-th call of run_single_test_method has returned
Returned(i) == i <= Len(test_result.method_results)

(* C23: when the module of a test method cannot be loaded when the method   *)
(* is run, run_single_test_method returns status error, an error text that  *)
(* begins with "Failed to import module: " and no traceback, and neither    *)
(* builds nor runs a suite.                                                 *)
C23_ImportFailure ==
    \A i \in 1..Len(log) :
        log[i].execution.load = "error" =>
            /\ Returned(i)
            /\ LET mr == test_result.method_results[i]
               IN  /\ mr.status = "error"
                   /\ mr.error # None
                   /\ Val(mr.error) \in
                          {"Failed to import module: " \o msg : msg \in ImportMessages}
                   /\ mr.traceback_str = None
            /\ log[i].suite = None
            /\ "TestSuite" \notin Range(log[i].calls)
            /\ "run" \notin Range(log[i].calls)

\* a run whose second method could not be loaded, after a first that ran
C23_Witness ==
    /\ Len(log) = 2
    /\ log[1].execution.load = "ok"
    /\ log[1].suite # None
    /\ log[2].execution.load = "error"
    /\ Returned(2)

\* the exceptions of the model that are instances of Exception; SystemExit
\* derives from BaseException only
Exceptions == ExceptionClasses \cup {"ImportError", "SyntaxError", "ValueError"}

\* the calls of run_single_test_method that raised
Propagated == IF pc = "raised" THEN 1 ELSE 0

\* the result of a call whose class or method is no longer in the module
AbsentReported(mr) ==
    /\ mr.status = "error"
    /\ mr.error = Some("AttributeError")
    /\ mr.traceback_str = Some("Traceback: AttributeError")

AllCalls == Flatten([i \in 1..Len(log) |-> log[i].calls])
Calls(name) == Count(AllCalls, name)

\* the suite of the i-th method was run: its module was loaded again and its
\* class and method were found
Ran(i) == log[i].execution.load = "ok" /\ log[i].execution.missing = "none"

\* the framework got as far as the setUp of the i-th method: the suite was
\* run, the test is not skipped and setUpClass did not raise
Reached(i) == Ran(i) /\ log[i].execution.fixture.setup \in {"ok", "error"}

ClassBound(i) == log[i].method.class_name # None

(* C25, as claimed: each test method is executed in its own freshly built   *)
(* suite that holds exactly that one test, after its module was imported    *)
(* again; over a run of N methods of classes setUp and tearDown each run    *)
(* exactly N times, and no suite ever holds two tests.                      *)
C25_HooksRunNTimes ==
    /\ \A i \in 1..Len(log) : log[i].suite # None => Len(Val(log[i].suite)) <= 1
    /\ pc = "executed" =>
          /\ \A i \in 1..Len(log) :
                /\ log[i].suite = Some(<<log[i].method.full_name>>)
                /\ Index(log[i].calls, "safe_import_module")
                       < Index(log[i].calls, "TestSuite")
          /\ (\A i \in 1..Len(log) : ClassBound(i)) =>
                /\ Calls("setUp") = Len(log)
                /\ Calls("tearDown") = Len(log)

(* C25, amended: each test method whose module loads again and whose class  *)
(* and method are found is executed in its own freshly built suite that     *)
(* holds exactly that one test; for any other method no suite is run.  Over *)
(* a run of methods of classes setUp runs once for each method whose suite  *)
(* is run, whose test is not skipped and whose setUpClass did not raise,    *)
(* and tearDown once for each of these whose setUp did not raise; no suite  *)
(* ever holds two tests.                                                    *)
C25_HooksRunPerExecutedMethod ==
    /\ \A i \in 1..Len(log) :
          /\ log[i].suite # None => Len(Val(log[i].suite)) <= 1
          /\ IF Ran(i)
             THEN /\ log[i].suite = Some(<<log[i].method.full_name>>)
                  /\ Index(log[i].calls, "safe_import_module")
                         < Index(log[i].calls, "TestSuite")
                  /\ Count(log[i].calls, "run") = 1
             ELSE /\ log[i].suite \in {None, Some(<<>>)}
                  /\ Count(log[i].calls, "run") = 0
    /\ (\A i \in 1..Len(log) : ClassBound(i)) =>
          /\ Calls("setUp") = Cardinality({i \in 1..Len(log) : Reached(i)})
          /\ Calls("tearDown") =
                 Cardinality({i \in 1..Len(log) :
                                Reached(i) /\ log[i].execution.fixture.setup = "ok"})

\* a finished run over two methods of a class, both executed, the setUp of
\* the second raising: setUp ran twice and tearDown once
C25_Witness ==
    /\ pc = "executed"
    /\ Len(log) = 2
    /\ ClassBound(1) /\ ClassBound(2)
    /\ Ran(1) /\ Ran(2)
    /\ log[1].execution.fixture.setup = "ok"
    /\ log[2].execution.fixture.setup = "error"
    /\ Calls("setUp") = 2
    /\ Calls("tearDown") = 1

(***************************************************************************)
(* The order of the coverage calls                                         *)
(***************************************************************************)
\* the places of a call in the log
Positions(name) == {i \in 1..Len(log) : log[i] = name}

\* the places of the coverage reports main asks for
ReportPositions ==
    Positions("generate_coverage_report") \cup Positions("generate_html_coverage_report")

\* the number of test methods run_tests was given
GivenMethods == Len(MethodsOf(test_methods_by_module))

(* C26: when coverage is requested and available, run_tests starts coverage *)
(* before the first test method is executed and stops it after the last     *)
(* test method was executed and its result appended; the text and HTML      *)
(* reports are asked for only after the stop, only when there is a coverage *)
(* object and coverage is enabled, and the HTML report only when            *)
(* html_coverage is true.                                                   *)
C26_CoverageBrackets ==
    /\ (config.coverage_enabled /\ Val(world).coverage.available) =>
          /\ \A i \in Positions("run_single_test_method") :
                \E j \in Positions("start_coverage_collection") : j < i
          /\ pc \in {"cov_running", "cov_report", "cov_done"} =>
                Cardinality(Positions("start_coverage_collection")) = 1
          /\ pc \in {"cov_report", "cov_done"} =>
                Cardinality(Positions("stop_coverage_collection")) = 1
          /\ \A j \in Positions("stop_coverage_collection") :
                /\ \A i \in Positions("run_single_test_method") : i < j
                /\ Cardinality(Positions("run_single_test_method")) = GivenMethods
                /\ Len(test_result.method_results) = GivenMethods
    /\ \A r \in ReportPositions :
          /\ \E j \in Positions("stop_coverage_collection") : j < r
          /\ cov # None
          /\ config.coverage_enabled
    /\ Positions("generate_html_coverage_report") # {} => config.html_coverage

\* a run of two test methods with coverage started, both reports asked for
C26_Witness ==
    /\ pc = "cov_done"
    /\ config.coverage_enabled /\ config.html_coverage
    /\ cov # None
    /\ GivenMethods = 2
    /\ Positions("generate_coverage_report") # {}
    /\ Positions("generate_html_coverage_report") # {}

(***************************************************************************)
(* The TestResult of a run                                                 *)
(***************************************************************************)
\* stop_timing has been called on tr
Stopped(tr) == tr.end_time # None

(* C27: the TestResult of a run is append-only and frozen at stop_timing:   *)
(* every step leaves the results recorded so far as a prefix of             *)
(* method_results, and once stop_timing has been called the list of         *)
(* results, the counters and the duration no longer change.                 *)
C27_AppendOnlyFrozen ==
    [][(test_result # None /\ test_result' # None) =>
          /\ IsPrefix(test_result.method_results, test_result'.method_results)
          /\ Stopped(test_result) =>
                /\ test_result'.method_results = test_result.method_results
                /\ test_result'.total = test_result.total
                /\ test_result'.passed = test_result.passed
                /\ test_result'.failed = test_result.failed
                /\ test_result'.errors = test_result.errors
                /\ test_result'.duration = test_result.duration]_vars

\* main has returned after a run of two test methods: stop_timing was called
\* and the reports were made
C27_Witness ==
    /\ pc = "done"
    /\ test_result # None
    /\ Stopped(test_result)
    /\ Len(test_result.method_results) = 2
    /\ test_result.duration = 2
    /\ exit_code # None

(***************************************************************************)
(* The timing breakdown at the end of main                                 *)
(***************************************************************************)
MaxTimed == 6       \* most results of a run whose timing breakdown is made
MaxTicks == 2       \* longest duration of a result in a timing breakdown

\* the number of results the timing breakdown shows
TopSlow == 5

RECURSIVE InsertByDuration(_, _)
\* q, which is in order, with r put behind the results that are not faster:
\* sorted() is stable, also with reverse=True
InsertByDuration(q, r) ==
    IF q = <<>> THEN <<r>>
    ELSE IF Head(q).duration >= r.duration
         THEN <<Head(q)>> \o InsertByDuration(Tail(q), r)
         ELSE <<r>> \o q

RECURSIVE InsertAscending(_, _)
InsertAscending(q, r) ==
    IF q = <<>> THEN <<r>>
    ELSE IF Head(q).duration <= r.duration
         THEN <<Head(q)>> \o InsertAscending(Tail(q), r)
         ELSE <<r>> \o q

RECURSIVE sorted_results_ascending(_)
\* a plausible slip: reverse=True is missing
sorted_results_ascending(method_results) ==
    IF method_results = <<>> THEN <<>>
    ELSE InsertAscending(
             sorted_results_ascending(SubSeq(method_results, 1, Len(method_results) - 1)),
             method_results[Len(method_results)])

RECURSIVE sorted_results(_)
\* sorted(test_results.method_results, key=lambda x: x.duration, reverse=True)
sorted_results(method_results) ==
    IF method_results = <<>> THEN <<>>
    ELSE InsertByDuration(
             sorted_results(SubSeq(method_results, 1, Len(method_results) - 1)),
             method_results[Len(method_results)])

\* top_slow = sorted_results[:5]
top_slow(method_results) ==
    LET all == sorted_results(method_results)
    IN  SubSeq(all, 1, IF Len(all) < TopSlow THEN Len(all) ELSE TopSlow)

\* the test methods of a run, each with its own name
TimedNames == <<"test_1", "test_2", "test_3", "test_4", "test_5", "test_6",
                "test_7", "test_8">>

RECURSIVE AddResults(_, _)
\* the TestResult after add_result for each result of q
AddResults(tr, q) ==
    IF q = <<>> THEN tr ELSE AddResults(add_result(tr, Head(q)), Tail(q))

\* the results of a run: the i-th method with the i-th duration
TimedResults(durations) ==
    [i \in 1..Len(durations) |->
        MethodResult(TestMethod(TimedNames[i], "test_a", Some("TestA"),
                                Some("test_a.py")),
                     "pass", durations[i], None, None)]

TimingInit ==
    /\ Idle
    /\ pc = "timing"
    /\ \E durations \in SeqsUpTo(0..MaxTicks, MaxTimed) :
          test_result = AddResults(NewTestResult, TimedResults(durations))
    /\ now = 1

\* main: the timing breakdown; world keeps the results it lists
TimingBreakdown ==
    /\ pc = "timing"
    /\ world' = Some(IF test_result.method_results # <<>>
                     THEN top_slow(test_result.method_results) ELSE <<>>)
    /\ pc' = "timed"
    /\ UNCHANGED <<inputVars, sys_path, config, parsed_args, violation_count,
                   lint_failed, exit_code, discVars, runVars, log>>

TimingNext == TimingBreakdown

SpecTiming == TimingInit /\ [][TimingNext]_vars

\* the results the timing breakdown lists, and the places they have in
\* method_results
Listed == Val(world)
ListedPlaces ==
    {i \in 1..Len(test_result.method_results) :
        test_result.method_results[i] \in Range(Listed)}

(* C28: the timing breakdown lists min(5, total) of the method results, in  *)
(* non-increasing order of duration, and every result it lists has a        *)
(* duration greater than or equal to that of every result it does not list. *)
C28_SlowestFirst ==
    pc = "timed" =>
        /\ Len(Listed) = IF test_result.total < 5 THEN test_result.total ELSE 5
        /\ \A i, j \in 1..Len(Listed) : i # j => Listed[i] # Listed[j]
        /\ Cardinality(ListedPlaces) = Len(Listed)
        /\ \A i \in 1..(Len(Listed) - 1) : Listed[i].duration >= Listed[i + 1].duration
        /\ \A i \in ListedPlaces :
              \A j \in (1..Len(test_result.method_results)) \ ListedPlaces :
                  test_result.method_results[i].duration
                      >= test_result.method_results[j].duration

\* six results whose slowest is the last and whose fastest is the first:
\* five are listed, the last one first, and the first one is left out
C28_Witness ==
    /\ pc = "timed"
    /\ test_result.total = 6
    /\ Len(Listed) = 5
    /\ Listed[1] = test_result.method_results[6]
    /\ 1 \notin ListedPlaces
    /\ Listed[1].duration > Listed[5].duration

(***************************************************************************)
(* What an exit code of 0 says                                             *)
(***************************************************************************)
(* C29: whenever main returns 0 after a test or check action, at least one  *)
(* test method was executed and every recorded result is a pass: passed =   *)
(* total >= 1, failed = 0 and errors = 0.                                   *)
C29_ZeroMeansAllPassed ==
    (exit_code = Some(0) /\ parsed_args.action \in {"test", "check"}) =>
        /\ test_result # None
        /\ test_result.total >= 1
        /\ Len(test_result.method_results) = test_result.total
        /\ test_result.passed = test_result.total
        /\ test_result.failed = 0
        /\ test_result.errors = 0
        /\ \A i \in 1..Len(test_result.method_results) :
              test_result.method_results[i].status = "pass"

\* main has returned 0 after the check command, with two tests passed
C29_Witness ==
    /\ pc = "done"
    /\ exit_code = Some(0)
    /\ parsed_args.action = "check"
    /\ test_result # None
    /\ test_result.passed = 2

(***************************************************************************)
(* Groups without modules: discover_tests on its own, and main run with    *)
(* the name of a group                                                     *)
(***************************************************************************)
\* the argument lists that name a group of one of the configurations
GroupArgvs == {<<"all">>, <<"empty">>, <<"core">>}

GroupInit ==
    \/ DiscoverInit
    \/ /\ argv \in GroupArgvs
       /\ config_file \in ConfigFiles
       /\ fs \in FileSystems
       /\ config = None
       /\ pc = "start"
       /\ parsed_args = None
       /\ violation_count = None
       /\ lint_failed = FALSE
       /\ din = None
       /\ discovered_files = <<>>
       /\ test_methods_by_module = <<>>
       /\ queue = <<>>
       /\ test_result = None
       /\ cov = None
       /\ now = 1
       /\ exit_code = None
       /\ log = <<>>
       /\ sys_path = StartPath
       /\ world = None

GroupNext ==
    \/ DiscoverCall
    \/ MainStart
    \/ MainDiscover
    \/ MainInspect
    \/ RunStart
    \/ RunMethod
    \/ RunFinish
    \/ MainReport

SpecGroup == GroupInit /\ [][GroupNext]_vars

\* discover_tests was called with a group and no module list, and the group
\* is unknown or has no modules
EmptyGroupCall ==
    /\ din # None
    /\ pc # "discover_only"
    /\ ~TruthyList(Val(din).modules)
    /\ TruthyStr(Val(din).group)
    /\ \/ Val(Val(din).group) \notin DOMAIN config.test_groups
       \/ config.test_groups[Val(Val(din).group)] = <<>>

(* C30: a group that is unknown or has no modules (the default group all    *)
(* among them) makes discover_tests return the empty list without going on  *)
(* to the test type or to all types, and main, run with the name of such a  *)
(* group, returns 1 without executing a test.                               *)
C30_EmptyGroupFindsNothing ==
    EmptyGroupCall =>
        /\ discovered_files = <<>>
        /\ Range(log) \cap (GlobCalls \cup {"discover_files_by_modules"}) = {}
        /\ "resolve_test_group" \in Range(log)
        /\ pc # "discovered" =>
              /\ pc = "done"
              /\ exit_code = Some(1)
              /\ test_result = None
              /\ Range(log) \cap {"discover_test_methods", "run_tests",
                                  "run_single_test_method"} = {}

\* main was run with "all" and the default configuration, whose group all
\* has no modules, in a directory with test files, and has returned 1
C30_Witness ==
    /\ pc = "done"
    /\ argv = <<"all">>
    /\ config_file = None
    /\ parsed_args.group = Some("all")
    /\ fs # {}
    /\ discovered_files = <<>>
    /\ exit_code = Some(1)

=============================================================================
